---- MODULE Spec2Model ----
(***************************************************************************)
(* Model of the dispatch planner of feature-configs/fortistack/            *)
(* load_balancer.py: node pool resolution, proportional node allocation,   *)
(* greedy bin packing and the static / dynamic placement phases of main.   *)
(***************************************************************************)
EXTENDS Integers, Sequences, FiniteSets, TLC

(***************************************************************************)
(* Bounds of the model.                                                    *)
(***************************************************************************)
MaxFeatures == 2
MaxGroups == 3
MaxAllocFeatures == 3
MaxAllocNodes == 4
MaxAllocSeconds == 3
MaxHours == 2
MaxPart == 61

(***************************************************************************)
(* Generic sequence helpers.                                               *)
(***************************************************************************)
Range(s) == {s[i] : i \in 1..Len(s)}

RECURSIVE SumSeq(_)
SumSeq(s) == IF s = <<>> THEN 0 ELSE Head(s) + SumSeq(Tail(s))

RECURSIVE FlattenSeq(_)
FlattenSeq(ss) == IF ss = <<>> THEN <<>> ELSE Head(ss) \o FlattenSeq(Tail(ss))

Count(s, x) == Cardinality({i \in 1..Len(s) : s[i] = x})

SameMultiset(s, t) == /\ Len(s) = Len(t)
                      /\ \A x \in Range(s) \cup Range(t) : Count(s, x) = Count(t, x)

IsPrefix(s, t) == /\ Len(s) <= Len(t)
                  /\ \A i \in 1..Len(s) : s[i] = t[i]

NoDuplicates(s) == \A i, j \in 1..Len(s) : s[i] = s[j] => i = j

(***************************************************************************)
(* Node names.  A name is a string; the tables below give, for the names   *)
(* of the model, what the code reads off the string: whether it has the    *)
(* form node<digits>, the integer int(name[4:]), and the position of the   *)
(* name in Python's string order.                                          *)
(***************************************************************************)
IsNumericNode(name) == name \in {"node1", "node28", "node29"}

NodeNumber(name) == CASE name = "node1" -> 1
                      [] name = "node28" -> 28
                      [] name = "node29" -> 29

StringOrder == <<"agent", "builder", "node1", "node28", "node29", "node40", "node99">>

StringRank(name) == CHOOSE i \in 1..Len(StringOrder) : StringOrder[i] = name

\* key=lambda name: int(name[4:]) if name.startswith("node") and
\* name[4:].isdigit() else float("inf")
NumericKeyLeq(a, b) ==
    IF IsNumericNode(a)
    THEN (~IsNumericNode(b)) \/ NodeNumber(a) <= NodeNumber(b)
    ELSE ~IsNumericNode(b)

\* The results list.sort(key=...) can give for the elements of a set whose
\* order of iteration is not fixed: every arrangement in key order.
NumericSortsOfSet(S) ==
    {s \in [1..Cardinality(S) -> S] :
        /\ Range(s) = S
        /\ \A i \in 1..(Len(s) - 1) : NumericKeyLeq(s[i], s[i + 1])}

(***************************************************************************)
(* Duration texts "<H> hr <M> min <S> sec": a record of the three parts,   *)
(* Missing for a part the text does not have.                              *)
(***************************************************************************)
Missing == -1
SecondsPerHour == 3600
SecondsPerMinute == 60
DefaultGroupSeconds == 3600

DurationText(h, m, s) == [hr |-> h, min |-> m, sec |-> s]

OneHourText == DurationText(1, Missing, Missing)

PartValue(p) == IF p = Missing THEN 0 ELSE p

parse_duration_to_seconds(duration_text) ==
    PartValue(duration_text.hr) * SecondsPerHour
      + PartValue(duration_text.min) * SecondsPerMinute
      + PartValue(duration_text.sec)

\* Seeded fault (sensitivity of DurationRoundTripCanonical): a part that is
\* zero is written like the others.
FormatKeepZeroParts(seconds) ==
    DurationText(seconds \div SecondsPerHour,
                 (seconds % SecondsPerHour) \div SecondsPerMinute,
                 (seconds % SecondsPerHour) % SecondsPerMinute)

format_seconds_to_duration(seconds) ==
    LET hours == seconds \div SecondsPerHour
        remainder == seconds % SecondsPerHour
        minutes == remainder \div SecondsPerMinute
        secs == remainder % SecondsPerMinute
    IN  IF hours = 0 /\ minutes = 0 /\ secs = 0
        THEN DurationText(Missing, Missing, 0)
        ELSE DurationText(IF hours # 0 THEN hours ELSE Missing,
                          IF minutes # 0 THEN minutes ELSE Missing,
                          IF secs # 0 THEN secs ELSE Missing)

(***************************************************************************)
(* Stable sorting, as list.sort / sorted: the elements of items in         *)
(* ascending order of key[item], equal keys keeping their order in items.  *)
(***************************************************************************)
InsertByKey(sorted, x, key) ==
    LET k == Cardinality({j \in 1..Len(sorted) : key[sorted[j]] <= key[x]})
    IN  SubSeq(sorted, 1, k) \o <<x>> \o SubSeq(sorted, k + 1, Len(sorted))

RECURSIVE StableSortByKey(_, _)
StableSortByKey(items, key) ==
    IF items = <<>> THEN <<>>
    ELSE InsertByKey(StableSortByKey(SubSeq(items, 1, Len(items) - 1), key),
                     items[Len(items)], key)

Indices(s) == [i \in 1..Len(s) |-> i]

Max(a, b) == IF a >= b THEN a ELSE b
Min(a, b) == IF a <= b THEN a ELSE b

(***************************************************************************)
(* allocate_counts_to_nodes.  raw_allocation[i] = durations[i] /           *)
(* total_duration * node_count is kept as the exact fraction               *)
(* durations[i] * node_count / total_duration: its floor and the numerator *)
(* of its fractional part are integer quotient and remainder.              *)
(***************************************************************************)
RawNumerator(durations, node_count) ==
    [i \in 1..Len(durations) |-> durations[i] * node_count]

FloorRaw(durations, node_count) ==
    [i \in 1..Len(durations) |->
        (durations[i] * node_count) \div SumSeq(durations)]

FractionNumerator(durations, node_count) ==
    [i \in 1..Len(durations) |->
        (durations[i] * node_count) % SumSeq(durations)]

\* node_counts = [max(1, floor(raw)) for raw in raw_allocation]
InitialCounts(durations, node_count) ==
    [i \in 1..Len(durations) |-> Max(1, FloorRaw(durations, node_count)[i])]

\* Seeded fault (sensitivity of AllocatorSumWithinNodesOrFeatures): no feature
\* is a candidate for giving a node back.
OverCandidatesNone(durations, node_count, node_counts) == <<>>

\* sorted([i for i, count in enumerate(node_counts) if count > 1],
\*        key=lambda i: raw_allocation[i])
OverCandidates(durations, node_count, node_counts) ==
    StableSortByKey(SelectSeq(Indices(node_counts), LAMBDA i : node_counts[i] > 1),
                    RawNumerator(durations, node_count))

\* sorted(range(len(raw_allocation)), key=lambda i: fractional_parts[i],
\*        reverse=True)
UnderCandidates(durations, node_count) ==
    StableSortByKey(Indices(durations),
                    [i \in 1..Len(durations) |->
                        0 - FractionNumerator(durations, node_count)[i]])

\* Seeded fault (sensitivity of AllocatorFeatureBounds): a feature reduced to
\* one node stays a candidate.
OverStepKeepCandidate(st) ==
    LET feature_index == st.candidates[(st.index % Len(st.candidates)) + 1]
    IN  [node_counts |-> [st.node_counts EXCEPT ![feature_index] = @ - 1],
         candidates |-> st.candidates,
         index |-> st.index + 1,
         todo |-> st.todo - 1]

\* One pass of the body of "while excess > 0 and candidates".
OverStep(st) ==
    LET feature_index == st.candidates[(st.index % Len(st.candidates)) + 1]
        counts == [st.node_counts EXCEPT ![feature_index] = @ - 1]
    IN  [node_counts |-> counts,
         candidates |-> IF counts[feature_index] = 1
                        THEN SelectSeq(st.candidates, LAMBDA c : c # feature_index)
                        ELSE st.candidates,
         index |-> st.index + 1,
         todo |-> st.todo - 1]

\* One pass of the body of "while deficit > 0".
UnderStep(st) ==
    LET feature_index == st.candidates[(st.index % Len(st.candidates)) + 1]
    IN  [node_counts |-> [st.node_counts EXCEPT ![feature_index] = @ + 1],
         candidates |-> st.candidates,
         index |-> st.index + 1,
         todo |-> st.todo - 1]

RECURSIVE OverLoop(_)
OverLoop(st) ==
    IF st.todo > 0 /\ st.candidates # <<>> THEN OverLoop(OverStep(st)) ELSE st

RECURSIVE UnderLoop(_)
UnderLoop(st) ==
    IF st.todo > 0 THEN UnderLoop(UnderStep(st)) ELSE st

\* Seeded fault (sensitivity of AllocatorExact): the cap is applied also to
\* a feature without groups.
CapToGroupsAlways(node_counts, group_counts) ==
    [i \in 1..Len(node_counts) |->
        IF i <= Len(group_counts)
        THEN Min(node_counts[i], group_counts[i])
        ELSE node_counts[i]]

\* node_counts[i] = min(node_counts[i], max_groups) if max_groups > 0
CapToGroups(node_counts, group_counts) ==
    [i \in 1..Len(node_counts) |->
        IF i <= Len(group_counts) /\ group_counts[i] > 0
        THEN Min(node_counts[i], group_counts[i])
        ELSE node_counts[i]]

AllOnes(durations) == [i \in 1..Len(durations) |-> 1]

\* The counts before the cap, and the loop state they start from.
AdjustStart(durations, node_count) ==
    LET counts == InitialCounts(durations, node_count)
        sum_allocated == SumSeq(counts)
    IN  IF sum_allocated > node_count
        THEN [node_counts |-> counts,
              candidates |-> OverCandidates(durations, node_count, counts),
              index |-> 0, todo |-> sum_allocated - node_count]
        ELSE [node_counts |-> counts,
              candidates |-> UnderCandidates(durations, node_count),
              index |-> 0, todo |-> node_count - sum_allocated]

IsOver(durations, node_count) ==
    SumSeq(InitialCounts(durations, node_count)) > node_count

allocate_counts_to_nodes(durations, node_count, group_counts) ==
    IF durations = <<>> \/ node_count <= 0 THEN AllOnes(durations)
    ELSE IF SumSeq(durations) = 0 THEN AllOnes(durations)
    ELSE LET start == AdjustStart(durations, node_count)
             final == IF IsOver(durations, node_count)
                      THEN OverLoop(start) ELSE UnderLoop(start)
         IN  CapToGroups(final.node_counts, group_counts)

(***************************************************************************)
(* distribute_groups_across_nodes.  group_duration_map is a dict: here the *)
(* sequence of its items in insertion order, each [group, seconds].        *)
(***************************************************************************)
\* sorted(group_duration_map.items(), key=lambda item: item[1], reverse=True)
SortedGroups(group_duration_map) ==
    LET order == StableSortByKey(Indices(group_duration_map),
                     [i \in 1..Len(group_duration_map) |->
                         0 - group_duration_map[i].seconds])
    IN  [k \in 1..Len(order) |-> group_duration_map[order[k]]]

\* min(bins, key=lambda bin: bin["total_duration"]): the first smallest
TargetBin(bins) ==
    CHOOSE i \in 1..Len(bins) :
        /\ \A j \in 1..Len(bins) : bins[i].total_duration <= bins[j].total_duration
        /\ \A j \in 1..(i - 1) : bins[j].total_duration > bins[i].total_duration

RECURSIVE PackGroups(_, _)
PackGroups(sorted_groups, bins) ==
    IF sorted_groups = <<>> THEN bins
    ELSE LET item == Head(sorted_groups)
             t == TargetBin(bins)
         IN  PackGroups(Tail(sorted_groups),
                 [bins EXCEPT ![t] =
                     [groups |-> Append(@.groups, item.group),
                      total_duration |-> @.total_duration + item.seconds]])

distribute_groups_across_nodes(group_duration_map, bin_count) ==
    IF group_duration_map = <<>> \/ bin_count <= 0 THEN <<>>
    ELSE PackGroups(SortedGroups(group_duration_map),
                    [b \in 1..bin_count |-> [groups |-> <<>>, total_duration |-> 0]])

(***************************************************************************)
(* Names as character strings.  A name is an atom; Chars gives its         *)
(* characters, on which strip, lower, the substring test and the wildcard  *)
(* match of match_feature_name work.  No name holds a line break.          *)
(***************************************************************************)
Chars ==
    "" :> <<>> @@
    " " :> <<" ">> @@
    "foc" :> <<"f", "o", "c">> @@
    "dlp" :> <<"d", "l", "p">> @@
    "ips" :> <<"i", "p", "s">> @@
    " foc " :> <<" ", "f", "o", "c", " ">> @@
    "p" :> <<"p">> @@
    "IP" :> <<"I", "P">> @@
    "d*" :> <<"d", "*">> @@
    "*" :> <<"*">> @@
    "zzz" :> <<"z", "z", "z">> @@
    "a.crit" :> <<"a", ".", "c", "r", "i", "t">> @@
    "b.full" :> <<"b", ".", "f", "u", "l", "l">> @@
    "c.tmp" :> <<"c", ".", "t", "m", "p">> @@
    "d.crit" :> <<"d", ".", "c", "r", "i", "t">> @@
    "crit" :> <<"c", "r", "i", "t">> @@
    "full" :> <<"f", "u", "l", "l">> @@
    "tmp" :> <<"t", "m", "p">> @@
    "a" :> <<"a">> @@
    "*.CRIT" :> <<"*", ".", "C", "R", "I", "T">> @@
    "*l" :> <<"*", "l">> @@
    "fortistack_runtest" :> <<"f", "o", "r", "t", "i", "s", "t", "a", "c", "k", "_", "r", "u", "n", "t", "e", "s", "t">> @@
    "fortistackRunTests" :> <<"f", "o", "r", "t", "i", "s", "t", "a", "c", "k", "R", "u", "n", "T", "e", "s", "t", "s">> @@
    "fortistack_provision_fgts" :> <<"f", "o", "r", "t", "i", "s", "t", "a", "c", "k", "_", "p", "r", "o", "v", "i", "s", "i", "o", "n", "_", "f", "g", "t", "s">> @@
    "fortistackProvisionTestEnv" :> <<"f", "o", "r", "t", "i", "s", "t", "a", "c", "k", "P", "r", "o", "v", "i", "s", "i", "o", "n", "T", "e", "s", "t", "E", "n", "v">> @@
    "fortistack_runtest #7" :> <<"f", "o", "r", "t", "i", "s", "t", "a", "c", "k", "_", "r", "u", "n", "t", "e", "s", "t", " ", "#", "7">> @@
    "fortistackRunTests #2" :> <<"f", "o", "r", "t", "i", "s", "t", "a", "c", "k", "R", "u", "n", "T", "e", "s", "t", "s", " ", "#", "2">> @@
    "fortistack_provision_fgts #1" :> <<"f", "o", "r", "t", "i", "s", "t", "a", "c", "k", "_", "p", "r", "o", "v", "i", "s", "i", "o", "n", "_", "f", "g", "t", "s", " ", "#", "1">> @@
    "fortistackProvisionTestEnv #4" :> <<"f", "o", "r", "t", "i", "s", "t", "a", "c", "k", "P", "r", "o", "v", "i", "s", "i", "o", "n", "T", "e", "s", "t", "E", "n", "v", " ", "#", "4">> @@
    "build_docs #3" :> <<"b", "u", "i", "l", "d", "_", "d", "o", "c", "s", " ", "#", "3">> @@
    "fortistack_run" :> <<"f", "o", "r", "t", "i", "s", "t", "a", "c", "k", "_", "r", "u", "n">>

UpperToLower ==
    "C" :> "c" @@ "I" :> "i" @@ "P" :> "p" @@ "R" :> "r" @@ "T" :> "t"

\* str.lower()
Lower(text) ==
    [k \in 1..Len(text) |->
        IF text[k] \in DOMAIN UpperToLower THEN UpperToLower[text[k]] ELSE text[k]]

\* str.strip()
RECURSIVE StripLeft(_)
StripLeft(text) ==
    IF text # <<>> /\ Head(text) = " " THEN StripLeft(Tail(text)) ELSE text

RECURSIVE StripRight(_)
StripRight(text) ==
    IF text # <<>> /\ text[Len(text)] = " "
    THEN StripRight(SubSeq(text, 1, Len(text) - 1)) ELSE text

Strip(text) == StripRight(StripLeft(text))

\* str.endswith(suffix)
EndsWith(text, suffix) ==
    /\ Len(suffix) <= Len(text)
    /\ SubSeq(text, Len(text) - Len(suffix) + 1, Len(text)) = suffix

\* "pattern in text"
Contains(text, pattern) ==
    \E k \in 0..(Len(text) - Len(pattern)) :
        SubSeq(text, k + 1, k + Len(pattern)) = pattern

\* re.match("^" + re.escape(pattern).replace("\*", ".*") + "$", text): every
\* character but * stands for itself, * for any run of characters.
RECURSIVE WildcardMatch(_, _)
WildcardMatch(pattern, text) ==
    IF pattern = <<>> THEN text = <<>>
    ELSE IF Head(pattern) = "*"
    THEN \/ WildcardMatch(Tail(pattern), text)
         \/ text # <<>> /\ WildcardMatch(pattern, Tail(text))
    ELSE /\ text # <<>>
         /\ Head(text) = Head(pattern)
         /\ WildcardMatch(Tail(pattern), Tail(text))

match_feature_name(feature_name, pattern) ==
    LET feature_lower == Lower(feature_name)
        pattern_lower == Lower(pattern)
    IN  IF "*" \in Range(pattern_lower)
        THEN WildcardMatch(pattern_lower, feature_lower)
        ELSE \/ feature_lower = pattern_lower
             \/ Contains(feature_lower, pattern_lower)

\* A comma-separated argument is the sequence of its pieces between the
\* commas.  "patterns and patterns.strip()": some piece is not blank, or
\* there is a comma.
ArgGiven(pieces) == Len(pieces) > 1 \/ Strip(Chars[pieces[1]]) # <<>>

\* [p.strip() for p in patterns.split(",") if p.strip()]
PatternList(pieces) ==
    LET kept == SelectSeq(pieces, LAMBDA p : Strip(Chars[p]) # <<>>)
    IN  [k \in 1..Len(kept) |-> Strip(Chars[kept[k]])]

\* filter_test_groups_by_choice
filter_test_groups_by_choice(test_groups, choice) ==
    IF choice = "all" THEN test_groups
    ELSE SelectSeq(test_groups,
                   LAMBDA group : EndsWith(Chars[group], <<".">> \o Chars[choice]))

\* The names of matching_features / matching_groups: a name is added when
\* some pattern of the list matches it.
MatchesAny(name, pattern_list) ==
    \E k \in 1..Len(pattern_list) : match_feature_name(Chars[name], pattern_list[k])

\* filter_features_by_patterns; an entry whose FEATURE_NAME is empty is
\* passed over when matching_features is built.
filter_features_by_patterns(entries, pieces, mode) ==
    LET pattern_list == PatternList(pieces)
        matching_features ==
            {entries[i].FEATURE_NAME : i \in
                {j \in 1..Len(entries) :
                    /\ entries[j].FEATURE_NAME # ""
                    /\ MatchesAny(entries[j].FEATURE_NAME, pattern_list)}}
    IN  IF ~ArgGiven(pieces) \/ pattern_list = <<>> THEN entries
        ELSE IF mode = "include"
        THEN SelectSeq(entries, LAMBDA e : e.FEATURE_NAME \in matching_features)
        ELSE SelectSeq(entries, LAMBDA e : e.FEATURE_NAME \notin matching_features)

\* Seeded fault (sensitivity of GroupFiltering): the groups matching a
\* pattern are the ones kept, as with mode="include".
KeepMatchingGroups(test_groups, pieces) ==
    SelectSeq(test_groups, LAMBDA group : MatchesAny(group, PatternList(pieces)))

\* filter_test_groups_by_patterns(test_groups, patterns, mode="exclude")
filter_test_groups_by_patterns(test_groups, pieces) ==
    LET pattern_list == PatternList(pieces)
    IN  IF ~ArgGiven(pieces) \/ pattern_list = <<>> THEN test_groups
        ELSE SelectSeq(test_groups, LAMBDA group : ~MatchesAny(group, pattern_list))

\* Stage 1 and stage 2 of main's group filtering, for one test_groups list.
FilteredGroups(original_groups, choice, pieces) ==
    LET by_choice == IF choice # "all"
                     THEN filter_test_groups_by_choice(original_groups, choice)
                     ELSE original_groups
    IN  IF ArgGiven(pieces)
        THEN filter_test_groups_by_patterns(by_choice, pieces)
        ELSE by_choice

(***************************************************************************)
(* Catalog entries and FeatureParametersGetter.merge_features.  An entry   *)
(* is a function from its keys to their values.  The list fields hold      *)
(* lists; an email value is a string or a list of strings, a string being  *)
(* the sequence of its pieces between the commas.  None stands for null   *)
(* in the scalar fields; a list field that is null is a key left out.      *)
(***************************************************************************)
ADMIN_EMAILS == {"yzhengfeng@fortinet.com", "wangd@fortinet.com", "rainxiao@fortinet.com"}

\* The addresses of the model in the order sorted() gives them.
AddressOrder ==
    <<"alice@fortinet.com", "rainxiao@fortinet.com", "wangd@fortinet.com",
      "yzhengfeng@fortinet.com", "zoe@fortinet.com">>

\* addr.strip() on the pieces of the model that it changes.
StripTable == " " :> "" @@ " alice@fortinet.com " :> "alice@fortinet.com"

StripAddress(addr) == IF addr \in DOMAIN StripTable THEN StripTable[addr] ELSE addr

EmailStr(pieces) == [kind |-> "str", text |-> pieces]
EmailList(items) == [kind |-> "list", items |-> items]

\* {addr.strip() for addr in text.split(",") if addr.strip()}
AddressesOfText(pieces) == {StripAddress(pieces[k]) : k \in 1..Len(pieces)} \ {""}

\* The addresses of an email value, every item of a list being read.
AddressesOf(email) ==
    IF email.kind = "list"
    THEN UNION {AddressesOfText(email.items[k]) : k \in 1..Len(email.items)}
    ELSE AddressesOfText(email.text)

\* ",".join(sorted(addresses)), as the pieces of the joined string; the
\* join of no address is the empty string.
JoinSorted(addresses) ==
    IF addresses = {} THEN <<"">>
    ELSE SelectSeq(AddressOrder, LAMBDA addr : addr \in addresses)

None == "None"

list_fields == <<"test_case_folder", "test_config", "test_groups", "docker_compose">>

scalar_fields_upper == <<"PROVISION_VMPC", "PROVISION_DOCKER", "VMPC_NAMES", "ORIOLE_SUBMIT_FLAG">>

key_map ==
    "PROVISION_VMPC" :> "provision_vmpc" @@
    "VMPC_NAMES" :> "vmpc_names" @@
    "PROVISION_DOCKER" :> "provision_docker" @@
    "ORIOLE_SUBMIT_FLAG" :> "oriole_submit_flag"

\* A scalar key that is present and not null.
Has(entry, key) == key \in DOMAIN entry /\ entry[key] # None

\* The name normalize_entry settles on; "" when there is none.
ResolvedName(entry) ==
    LET given(k) == k \in DOMAIN entry /\ entry[k] # ""
        others == SelectSeq(<<"feature_name", "feature", "name">>, given)
    IN  IF given("FEATURE_NAME") THEN entry["FEATURE_NAME"]
        ELSE IF others # <<>> THEN entry[others[1]]
        ELSE ""

\* Whether normalize_entry stores an email: the value has an address.
HasAddresses(entry) ==
    /\ "email" \in DOMAIN entry
    /\ AddressesOf(entry["email"]) # {}

\* Seeded fault (sensitivity of MergeIdempotent): the scalar fields are read
\* under their snake_case keys alone.
NormalizedConfigSnakeOnly(entry) ==
    LET lists == Range(list_fields) \cap DOMAIN entry
        scalars == {sf \in Range(scalar_fields_upper) : Has(entry, key_map[sf])}
        emails == IF HasAddresses(entry) THEN {"email"} ELSE {}
    IN  [k \in lists \cup scalars \cup emails \cup {"ORIOLE_SUBMIT_FLAG"} |->
            IF k \in lists THEN entry[k]
            ELSE IF k = "email"
            THEN EmailList(<<JoinSorted(AddressesOf(entry["email"]) \cup ADMIN_EMAILS)>>)
            ELSE IF Has(entry, key_map[k]) THEN entry[key_map[k]]
            ELSE "all"]

\* cfg of normalize_entry.
NormalizedConfig(entry) ==
    LET lists == Range(list_fields) \cap DOMAIN entry
        scalars == {sf \in Range(scalar_fields_upper) :
                        Has(entry, sf) \/ Has(entry, key_map[sf])}
        emails == IF HasAddresses(entry) THEN {"email"} ELSE {}
    IN  [k \in lists \cup scalars \cup emails \cup {"ORIOLE_SUBMIT_FLAG"} |->
            IF k \in lists THEN entry[k]
            ELSE IF k = "email"
            THEN EmailList(<<JoinSorted(AddressesOf(entry["email"]) \cup ADMIN_EMAILS)>>)
            ELSE IF Has(entry, k) THEN entry[k]
            ELSE IF Has(entry, key_map[k]) THEN entry[key_map[k]]
            ELSE "all"]

\* deduped: the first occurrence of every value, in order.
RECURSIVE Deduped(_)
Deduped(combined) ==
    IF combined = <<>> THEN <<>>
    ELSE LET front == Deduped(SubSeq(combined, 1, Len(combined) - 1))
             val == combined[Len(combined)]
         IN  IF val \in Range(front) THEN front ELSE Append(front, val)

\* The merge of the config of a later occurrence into base.
MergeConfig(base, config) ==
    [k \in DOMAIN base \cup DOMAIN config |->
        IF k \notin DOMAIN config THEN base[k]
        ELSE IF k \in Range(list_fields)
        THEN Deduped((IF k \in DOMAIN base THEN base[k] ELSE <<>>) \o config[k])
        ELSE IF k = "email"
        THEN EmailList(<<JoinSorted(
                 (IF "email" \in DOMAIN base THEN AddressesOf(base["email"]) ELSE {})
                 \cup AddressesOf(config["email"]) \cup ADMIN_EMAILS)>>)
        ELSE config[k]]

EmptyDict == [k \in {} |-> None]

\* One pass of the loop of merge_features over the entry raw.
MergeOne(merged, raw) ==
    LET feature_name == ResolvedName(raw)
        config == NormalizedConfig(raw)
    IN  IF feature_name = "" THEN merged
        ELSE IF feature_name \notin DOMAIN merged
        THEN merged @@ (feature_name :> config)
        ELSE [merged EXCEPT ![feature_name] = MergeConfig(@, config)]

RECURSIVE MergePrefix(_, _)
MergePrefix(entries, n) ==
    IF n = 0 THEN EmptyDict
    ELSE MergeOne(MergePrefix(entries, n - 1), entries[n])

merge_features(entries) == MergePrefix(entries, Len(entries))

(***************************************************************************)
(* Program constants and the inputs of a run.                              *)
(***************************************************************************)
\* FEATURE_NODE_STATIC_BINDING, each value already split at the commas.
FEATURE_NODE_STATIC_BINDING ==
    [avfortisandbox |-> <<"node2">>,
     ztna |-> <<"node15">>,
     foc |-> <<"node28", "node29">>,
     waf |-> <<"node40">>,
     avfortindr |-> <<"node99">>]

FeatureNames == {"foc", "dlp", "ips"}

\* Group names.  They abbreviate catalog names of nine characters or more:
\* the footer of log_duration_summary_table pads by len(name) - 9.
GroupUniverse == <<"g1", "g2", "g3", "g4">>

\* test_groups lists of a catalog entry: g1..gk, and one list that repeats
\* a group name (the entries are not deduplicated before main uses them).
GroupLists ==
    {SubSeq(GroupUniverse, 1, k) : k \in 1..MaxGroups} \cup {<<"g1", "g1">>}

Entries == [FEATURE_NAME : FeatureNames, test_groups : GroupLists]

Catalogs == UNION {[1..n -> Entries] : n \in 1..MaxFeatures}

ZeroSecText == DurationText(Missing, Missing, 0)
HalfHourText == DurationText(Missing, 30, Missing)
TwoHourText == DurationText(2, Missing, Missing)

\* Maps group -> duration text, as the duration source gives them for a
\* feature; a group outside the map has no observation.
DurationMaps ==
    {[g \in {"g1", "g2", "g3"} |-> IF g = "g1" THEN HalfHourText ELSE ZeroSecText],
     [g \in {"g1", "g2"} |-> IF g = "g1" THEN TwoHourText ELSE HalfHourText],
     [g \in {"g1", "g2", "g3"} |-> ZeroSecText]}

\* duration_entries: a list of (feature name, duration map) pairs.
DurationEntryLists ==
    {<<>>} \cup
    {[i \in 1..3 |-> [name |-> <<"foc", "dlp", "ips">>[i], map |-> m]] :
        m \in DurationMaps}

NodeSpecOrder == <<"node1", "node28", "node29", "agent">>

\* The node sets --nodes can name: the first k names of NodeSpecOrder.
NodeSpecs == {{NodeSpecOrder[i] : i \in 1..k} : k \in 0..Len(NodeSpecOrder)}

\* DEFAULT_RESERVED_NODES, split at the commas.
DEFAULT_RESERVED_NODES == {"Built-In Node", "node48", "node36", "node3"}

ReservedChoices == {DEFAULT_RESERVED_NODES, {"node28"}, {"node1", "agent"}}
ExcludeChoices == {{}, {"node1"}, {"node29"}}

\* Catalogs whose entries all have the groups g1, g2.
PlainCatalogs ==
    {c \in Catalogs : \A i \in 1..Len(c) : c[i].test_groups = <<"g1", "g2">>}

\* What get_idle_jenkins_nodes can return: the idle nodes of the controller.
JenkinsIdleSets == {{}, {"node1", "node29"}, {"node28", "node29", "agent"}}

\* The catalog entries of the runs that load and filter: features with and
\* without an email, one without a name, group names with suffixes.
ZoeText == <<"zoe@fortinet.com">>
AliceZoeText == <<"zoe@fortinet.com", " alice@fortinet.com ">>

FrontEntries ==
    {[FEATURE_NAME |-> "foc", test_groups |-> <<"a.crit", "b.full">>,
      email |-> EmailStr(ZoeText)],
     [FEATURE_NAME |-> "dlp", test_groups |-> <<"a.crit", "d.crit">>],
     [FEATURE_NAME |-> "dlp", test_groups |-> <<"c.tmp">>,
      email |-> EmailList(<<AliceZoeText, <<"alice@fortinet.com">>>>)],
     [FEATURE_NAME |-> "ips", test_groups |-> <<"b.full">>, email |-> EmailStr(<<"">>)],
     [FEATURE_NAME |-> "ips", test_groups |-> <<"c.tmp", "a.crit">>,
      email |-> EmailList(<<>>)],
     [FEATURE_NAME |-> "", test_groups |-> <<"a.crit">>]}

FrontCatalogs == UNION {[1..n -> FrontEntries] : n \in 1..MaxFeatures}

\* What get_feature_entries comes to: a list of entries, an exception of the
\* source, or no source at all.
FrontSources ==
    {[kind |-> "entries", entries |-> c] : c \in FrontCatalogs}
    \cup {[kind |-> "failed"], [kind |-> "none"]}

FeatureArgs == {<<"">>, <<"p">>, <<"zzz">>, <<" foc ", "d*">>, <<" ", "">>, <<"*">>}
ExcludeArgs == {<<"">>, <<"IP">>, <<"*">>, <<"p", "zzz">>, <<" ">>}
GroupChoices == {"all", "crit", "full", "tmp"}
GroupFilterArgs == {<<"">>, <<"a">>, <<"*.CRIT", "tmp">>, <<"*l">>}

\* --features, --exclude, --group-choice, --group-filter of a run.
FrontArgs ==
    {[features |-> f, exclude |-> e, choice |-> "all", filter |-> <<"">>] :
        f \in FeatureArgs, e \in {<<"">>, <<"IP">>}}
    \cup {[features |-> f, exclude |-> e, choice |-> "all", filter |-> <<"">>] :
        f \in {<<"">>, <<"p">>}, e \in ExcludeArgs}
    \cup {[features |-> <<"">>, exclude |-> <<"">>, choice |-> c, filter |-> g] :
        c \in GroupChoices, g \in {<<"">>, <<"a">>}}
    \cup {[features |-> <<"">>, exclude |-> <<"">>, choice |-> c, filter |-> g] :
        c \in {"all", "crit"}, g \in GroupFilterArgs}
    \cup {[features |-> <<"p">>, exclude |-> <<"IP">>, choice |-> "crit",
           filter |-> <<"a">>]}

VARIABLES
    pc,                 \* position in main
    feature_source,     \* what the catalog source gives
    features_arg,       \* --features, the pieces between the commas
    exclude_arg,        \* --exclude
    group_choice,       \* --group-choice
    group_filter,       \* --group-filter
    merged_features,    \* what was written to features.json
    merge,              \* merge_features run entry by entry
    unit,               \* a function of the program run on its own
    feature_entries,    \* the catalog entries, filtered step by step
    duration_entries,   \* (feature, duration map) pairs
    nodes_spec,         \* the set of names --nodes expands to
    use_jenkins_nodes,  \* --use-jenkins-nodes
    reserved_nodes,     \* --reserved-nodes
    exclude_nodes,      \* --exclude-nodes
    jenkins_queried,    \* whether the live inventory was asked
    jenkins_idle_pool,  \* what it answered
    base_pool,          \* get_final_node_pool's base_pool
    available_nodes,
    twin_nodes,         \* available_nodes of a second run on the same inputs
    feature_durations,
    node_allocations,
    static_features,    \* indices into feature_entries, in order
    dynamic_features,
    static_pos,         \* static features processed so far
    dynamic_pos,
    used_nodes,
    remaining_nodes,
    node_index,
    skipped_features,
    dispatch_entries,
    twin_entries,       \* dispatch_entries of the second run
    emitted,            \* history: per catalog entry, the bins given a record
    output_file,        \* contents written to the dispatch path, in order
    alloc               \* allocate_counts_to_nodes run step by step

vars == <<pc, feature_source, features_arg, exclude_arg, group_choice, group_filter,
          merged_features, merge, unit, feature_entries, duration_entries, nodes_spec, use_jenkins_nodes,
          reserved_nodes, exclude_nodes, jenkins_queried, jenkins_idle_pool,
          base_pool, available_nodes, twin_nodes, feature_durations, node_allocations, static_features,
          dynamic_features, static_pos, dynamic_pos, used_nodes, remaining_nodes,
          node_index, skipped_features, dispatch_entries, twin_entries, emitted,
          output_file, alloc>>

argVars == <<features_arg, exclude_arg, group_choice, group_filter>>

sourceVars == <<feature_source, merged_features, merge, unit>>

nodeArgVars == <<duration_entries, nodes_spec, use_jenkins_nodes, reserved_nodes,
                 exclude_nodes>>

inputVars == <<feature_entries, nodeArgVars, argVars, sourceVars>>

poolVars == <<jenkins_queried, jenkins_idle_pool, base_pool, available_nodes,
              twin_nodes>>

allocVars == <<feature_durations, node_allocations, static_features,
               dynamic_features>>

placeVars == <<static_pos, dynamic_pos, used_nodes, remaining_nodes, node_index,
               skipped_features, dispatch_entries, twin_entries, emitted>>

NoAlloc == [phase |-> "off"]

NoMerge == [phase |-> "off"]

NoUnit == [fn |-> "none"]

(***************************************************************************)
(* Duration lookups of main.                                               *)
(***************************************************************************)
EmptyMap == [g \in {} |-> ZeroSecText]

EntriesNamed(name) == {i \in 1..Len(duration_entries) : duration_entries[i].name = name}

\* dict(duration_entries).get(feature_name, {}): the last pair wins
DurationDictGet(name) ==
    IF EntriesNamed(name) = {} THEN EmptyMap
    ELSE duration_entries[CHOOSE i \in EntriesNamed(name) :
                              \A j \in EntriesNamed(name) : j <= i].map

\* next((dur_map for name, dur_map in duration_entries if name == feature_name), {})
FirstDurationMap(name) ==
    IF EntriesNamed(name) = {} THEN EmptyMap
    ELSE duration_entries[CHOOSE i \in EntriesNamed(name) :
                              \A j \in EntriesNamed(name) : i <= j].map

\* The total of a feature as Step 9 of main sums it, one term per list element.
TotalSeconds(entry) ==
    LET duration_map == DurationDictGet(entry.FEATURE_NAME)
    IN  SumSeq([k \in 1..Len(entry.test_groups) |->
                   IF entry.test_groups[k] \in DOMAIN duration_map
                   THEN parse_duration_to_seconds(duration_map[entry.test_groups[k]])
                   ELSE DefaultGroupSeconds])

\* The keys of {group: ... for group in groups}: first occurrences, in order.
RECURSIVE DictKeys(_)
DictKeys(groups) ==
    IF groups = <<>> THEN <<>>
    ELSE LET front == DictKeys(SubSeq(groups, 1, Len(groups) - 1))
             last == groups[Len(groups)]
         IN  IF last \in Range(front) THEN front ELSE Append(front, last)

\* {group: parse_duration_to_seconds(duration_map.get(group, "1 hr")) for group in groups}
GroupDurations(groups, duration_map) ==
    LET keys == DictKeys(groups)
    IN  [k \in 1..Len(keys) |->
            [group |-> keys[k],
             seconds |-> parse_duration_to_seconds(
                             IF keys[k] \in DOMAIN duration_map
                             THEN duration_map[keys[k]] ELSE OneHourText)]]

\* The bins main packs for a catalog entry given bin_count nodes.
PackedBins(entry, bin_count) ==
    distribute_groups_across_nodes(
        GroupDurations(entry.test_groups, FirstDurationMap(entry.FEATURE_NAME)),
        bin_count)

\* all_emails of create_dispatch_entry, as the pieces of the joined string.
AllEmails(entry) ==
    LET email_recipients == IF "email" \in DOMAIN entry THEN entry["email"]
                            ELSE EmailStr(<<"">>)
        email_str == IF email_recipients.kind = "str" THEN email_recipients.text
                     ELSE IF email_recipients.items # <<>>
                     THEN FlattenSeq(email_recipients.items)
                     ELSE <<"">>
    IN  IF email_str # <<"">>
        THEN JoinSorted(AddressesOfText(email_str) \cup ADMIN_EMAILS)
        ELSE JoinSorted(ADMIN_EMAILS)

create_dispatch_entry(entry, node_name, groups, total_seconds) ==
    [NODE_NAME |-> node_name,
     FEATURE_NAME |-> entry.FEATURE_NAME,
     TEST_GROUP_CHOICE |-> IF groups # <<>> THEN groups[1] ELSE "",
     TEST_GROUPS |-> groups,
     SUM_DURATION |-> format_seconds_to_duration(total_seconds),
     SEND_TO |-> AllEmails(entry)]

(***************************************************************************)
(* main, Steps 1 to 5: load the catalog, write features.json, filter the   *)
(* features and their groups.                                              *)
(***************************************************************************)
Exit(code) == pc' = code

\* get_feature_entries, merge_features and the two writes of the merged
\* catalog; the second goes to a fixed path that may not be writable.
LoadFeatures ==
    /\ pc = "load"
    /\ IF feature_source.kind = "none"
       THEN Exit("exit1") /\ UNCHANGED <<feature_entries, merged_features>>
       ELSE IF feature_source.kind = "failed"
       THEN Exit("error") /\ UNCHANGED <<feature_entries, merged_features>>
       ELSE /\ feature_entries' = feature_source.entries
            /\ merged_features' = merge_features(feature_source.entries)
            /\ \E tools_path_writable \in BOOLEAN :
                   IF tools_path_writable THEN pc' = "filter_features"
                   ELSE Exit("error")
    /\ UNCHANGED <<feature_source, merge, unit, argVars, nodeArgVars, poolVars, allocVars,
                   placeVars, output_file, alloc>>

\* Steps 3 and 4: the inclusion filter, its exit, the exclusion filter.
FilterFeatures ==
    /\ pc = "filter_features"
    /\ LET included == IF ArgGiven(features_arg)
                       THEN filter_features_by_patterns(feature_entries,
                                                        features_arg, "include")
                       ELSE feature_entries
       IN  IF included = <<>> /\ ArgGiven(features_arg)
           THEN Exit("exit1") /\ feature_entries' = included
           ELSE /\ feature_entries' =
                       filter_features_by_patterns(included, exclude_arg, "exclude")
                /\ pc' = "filter_groups"
    /\ UNCHANGED <<sourceVars, argVars, nodeArgVars, poolVars, allocVars, placeVars,
                   output_file, alloc>>

\* entry.get("test_groups", [])
OriginalGroups(entry) ==
    IF "test_groups" \in DOMAIN entry THEN entry["test_groups"] ELSE <<>>

\* entries_with_groups of Step 5.
EntriesWithGroups(entries, choice, pieces) ==
    LET filtered == [i \in 1..Len(entries) |->
                        FilteredGroups(OriginalGroups(entries[i]), choice, pieces)]
        kept == SelectSeq(Indices(entries), LAMBDA i : filtered[i] # <<>>)
    IN  [k \in 1..Len(kept) |->
            [entries[kept[k]] EXCEPT !["test_groups"] = filtered[kept[k]]]]

FilterGroups ==
    /\ pc = "filter_groups"
    /\ feature_entries' = EntriesWithGroups(feature_entries, group_choice, group_filter)
    /\ emitted' = [i \in 1..Len(feature_entries') |-> <<>>]
    /\ IF feature_entries' = <<>> THEN Exit("exit1") ELSE pc' = "resolve_nodes"
    /\ UNCHANGED <<sourceVars, argVars, nodeArgVars, poolVars, allocVars, static_pos,
                   dynamic_pos, used_nodes, remaining_nodes, node_index,
                   skipped_features, dispatch_entries, twin_entries, output_file,
                   alloc>>

(***************************************************************************)
(* get_final_node_pool.                                                    *)
(***************************************************************************)
\* parse_node_list sorts list(set) by the numeric key: names without a
\* number keep the order the set iterates them in.
parse_node_list(node_spec) == NumericSortsOfSet(node_spec)

\* The answer of get_idle_jenkins_nodes: the call fails, or a sorted list.
JenkinsAnswers ==
    {[ok |-> FALSE, pool |-> <<>>]} \cup
    {[ok |-> TRUE, pool |-> p] : p \in UNION {NumericSortsOfSet(S) : S \in JenkinsIdleSets}}

\* Seeded fault (sensitivity of NodePoolResolution): the live inventory is
\* not taken into the base pool.
BasePoolsDefinedOnly(defined_node_pool, idle_pool) == {defined_node_pool}

BasePools(defined_node_pool, idle_pool) ==
    IF defined_node_pool = <<>> THEN {idle_pool}
    ELSE IF ~use_jenkins_nodes THEN {defined_node_pool}
    ELSE NumericSortsOfSet(Range(defined_node_pool) \cap Range(idle_pool))

\* Seeded fault (sensitivity of NoReservedNodeUsed): the reserved filter is dropped.
AvailablePoolKeepReserved(base) ==
    SelectSeq(base, LAMBDA node : node \notin exclude_nodes)

AvailablePool(base) ==
    LET after_reserved == SelectSeq(base, LAMBDA node : node \notin reserved_nodes)
    IN  SelectSeq(after_reserved, LAMBDA node : node \notin exclude_nodes)

\* The pools a run on the same arguments and the same live answer can come
\* to: the sets of parse_node_list and of the intersection in any order
\* their iteration can have.
TwinPools(idle_pool) ==
    {AvailablePool(base) :
        base \in UNION {BasePools(defined, idle_pool) :
                            defined \in parse_node_list(nodes_spec)}}

ResolveNodePool ==
    /\ pc = "resolve_nodes"
    /\ jenkins_queried' = use_jenkins_nodes
    /\ \E defined_node_pool \in parse_node_list(nodes_spec) :
       \E answer \in IF use_jenkins_nodes THEN JenkinsAnswers
                     ELSE {[ok |-> TRUE, pool |-> <<>>]} :
          IF ~answer.ok
          THEN Exit("exit1")
               /\ UNCHANGED <<jenkins_idle_pool, base_pool, available_nodes, twin_nodes>>
          ELSE IF defined_node_pool = <<>> /\ ~use_jenkins_nodes
          THEN Exit("exit1")
               /\ UNCHANGED <<jenkins_idle_pool, base_pool, available_nodes, twin_nodes>>
          ELSE \E base \in BasePools(defined_node_pool, answer.pool) :
                  /\ jenkins_idle_pool' = answer.pool
                  /\ base_pool' = base
                  /\ IF base = <<>> \/ AvailablePool(base) = <<>>
                     THEN Exit("exit1") /\ UNCHANGED <<available_nodes, twin_nodes>>
                     ELSE /\ available_nodes' = AvailablePool(base)
                          /\ twin_nodes' \in TwinPools(answer.pool)
                          /\ pc' = "allocate"
    /\ UNCHANGED <<inputVars, allocVars, placeVars, output_file, alloc>>

(***************************************************************************)
(* main, Step 9 and the static / dynamic split of Step 10.                 *)
(***************************************************************************)
\* Seeded fault (sensitivity of UnavailableBindingSkipped): a bound feature
\* without an available bound node is taken for a dynamic one.
IsStaticWhenAvailable(name) ==
    /\ name \in DOMAIN FEATURE_NODE_STATIC_BINDING
    /\ Range(FEATURE_NODE_STATIC_BINDING[name]) \cap Range(available_nodes) # {}

IsStatic(name) == name \in DOMAIN FEATURE_NODE_STATIC_BINDING

GroupCounts == [i \in 1..Len(feature_entries) |-> Len(feature_entries[i].test_groups)]

Allocate ==
    /\ pc = "allocate"
    /\ feature_durations' =
           [i \in 1..Len(feature_entries) |-> TotalSeconds(feature_entries[i])]
    /\ node_allocations' =
           allocate_counts_to_nodes(feature_durations', Len(available_nodes), GroupCounts)
    /\ static_features' =
           SelectSeq(Indices(feature_entries),
                     LAMBDA i : IsStatic(feature_entries[i].FEATURE_NAME))
    /\ dynamic_features' =
           SelectSeq(Indices(feature_entries),
                     LAMBDA i : ~IsStatic(feature_entries[i].FEATURE_NAME))
    /\ pc' = "static"
    /\ UNCHANGED <<inputVars, poolVars, placeVars, output_file, alloc>>

(***************************************************************************)
(* main, Step 10: static bindings first, one feature per step.             *)
(***************************************************************************)
\* sorted([node.strip() for node in nodes_str.split(",") if node.strip()])
StaticNodes(name) ==
    StableSortByKey(FEATURE_NODE_STATIC_BINDING[name],
                    [n \in Range(FEATURE_NODE_STATIC_BINDING[name]) |-> StringRank(n)])

\* Seeded fault (sensitivity of StaticHonored): bound nodes are not checked
\* against the available pool.
ValidStaticNodesUnfiltered(name) == StaticNodes(name)

ValidStaticNodes(name) ==
    SelectSeq(StaticNodes(name), LAMBDA node : node \in Range(available_nodes))

\* Seeded fault (sensitivity of StaticConflictFatal): the test
\* "if node in used_nodes" never succeeds.
ConflictPositionsNone(static_nodes, used) == {}

\* The positions of static_nodes at which "if node in used_nodes" is true,
\* each node before it having been added to used_nodes.
ConflictPositions(static_nodes, used) ==
    {k \in 1..Len(static_nodes) :
        static_nodes[k] \in used \cup {static_nodes[j] : j \in 1..(k - 1)}}

\* The bins that get a record in the static phase: "if not groups_for_node: continue".
NonEmptyBins(bins) == SelectSeq(Indices(bins), LAMBDA b : bins[b].groups # <<>>)

StaticRecords(entry, static_nodes, bins) ==
    LET kept == NonEmptyBins(bins)
    IN  [k \in 1..Len(kept) |->
            create_dispatch_entry(entry, static_nodes[kept[k]],
                                  bins[kept[k]].groups, bins[kept[k]].total_duration)]

StaticStep ==
    /\ pc = "static"
    /\ static_pos < Len(static_features)
    /\ LET i == static_features[static_pos + 1]
           entry == feature_entries[i]
           static_nodes == ValidStaticNodes(entry.FEATURE_NAME)
           conflicts == ConflictPositions(static_nodes, used_nodes)
           bins == PackedBins(entry, Len(static_nodes))
           kept == NonEmptyBins(bins)
       IN  IF static_nodes = <<>>
           THEN /\ static_pos' = static_pos + 1
                /\ UNCHANGED <<pc, used_nodes, dispatch_entries, twin_entries, emitted>>
           ELSE IF conflicts # {}
           THEN /\ Exit("exit1")
                /\ used_nodes' = used_nodes \cup
                       {static_nodes[j] : j \in 1..((CHOOSE k \in conflicts :
                                                     \A m \in conflicts : k <= m) - 1)}
                /\ UNCHANGED <<static_pos, dispatch_entries, twin_entries, emitted>>
           ELSE /\ used_nodes' = used_nodes \cup Range(static_nodes)
                /\ dispatch_entries' =
                       dispatch_entries \o StaticRecords(entry, static_nodes, bins)
                /\ twin_entries' =
                       twin_entries \o StaticRecords(entry, static_nodes, bins)
                /\ emitted' = [emitted EXCEPT ![i] =
                                  @ \o [k \in 1..Len(kept) |-> bins[kept[k]].groups]]
                /\ static_pos' = static_pos + 1
                /\ UNCHANGED pc
    /\ UNCHANGED <<inputVars, poolVars, allocVars, dynamic_pos, remaining_nodes,
                   node_index, skipped_features, output_file, alloc>>

\* remaining_nodes, and "Not enough nodes available after static bindings!"
StartDynamic ==
    /\ pc = "static"
    /\ static_pos = Len(static_features)
    /\ remaining_nodes' = SelectSeq(available_nodes, LAMBDA node : node \notin used_nodes)
    /\ IF remaining_nodes' = <<>> /\ dynamic_features # <<>>
       THEN Exit("exit1")
       ELSE pc' = "dynamic"
    /\ UNCHANGED <<inputVars, poolVars, allocVars, static_pos, dynamic_pos, used_nodes,
                   node_index, skipped_features, dispatch_entries, twin_entries,
                   emitted, output_file, alloc>>

(***************************************************************************)
(* main, Step 10: dynamic features, one feature per step.  The inner loop  *)
(* gives the bins, in order, the nodes remaining_nodes[node_index..] and   *)
(* breaks at the first bin for which no node is left.                      *)
(***************************************************************************)
\* Seeded fault (sensitivity of NodeExclusivity): node_index is not advanced
\* inside the loop over the bins.
DynamicRecordsOnFirstNode(entry, bins, placed) ==
    [k \in 1..placed |->
        create_dispatch_entry(entry, remaining_nodes[node_index + 1],
                              bins[k].groups, bins[k].total_duration)]

\* Seeded fault (sensitivity of DynamicBinBound): one bin per listed group,
\* whatever the allocator's count.
DynamicBinsPerGroup(i) ==
    PackedBins(feature_entries[i], Len(feature_entries[i].test_groups))

\* distributed_groups of the dynamic feature at catalog position i.
DynamicBins(i) == PackedBins(feature_entries[i], node_allocations[i])

DynamicRecords(entry, bins, placed) ==
    [k \in 1..placed |->
        create_dispatch_entry(entry, remaining_nodes[node_index + k],
                              bins[k].groups, bins[k].total_duration)]

\* The records of the second run: its remaining nodes are the same set in
\* the order of its own pool.
TwinRecords(entry, bins, placed) ==
    LET twin_remaining == SelectSeq(twin_nodes,
                                    LAMBDA node : node \in Range(remaining_nodes))
    IN  [k \in 1..placed |->
            create_dispatch_entry(entry, twin_remaining[node_index + k],
                                  bins[k].groups, bins[k].total_duration)]

DynamicStep ==
    /\ pc = "dynamic"
    /\ dynamic_pos < Len(dynamic_features)
    /\ LET i == dynamic_features[dynamic_pos + 1]
           entry == feature_entries[i]
           bins == DynamicBins(i)
           placed == Min(Len(bins), Len(remaining_nodes) - node_index)
       IN  /\ dispatch_entries' = dispatch_entries \o DynamicRecords(entry, bins, placed)
           /\ twin_entries' = twin_entries \o TwinRecords(entry, bins, placed)
           /\ emitted' = [emitted EXCEPT ![i] = @ \o [k \in 1..placed |-> bins[k].groups]]
           /\ used_nodes' = used_nodes \cup
                  {remaining_nodes[node_index + k] : k \in 1..placed}
           /\ node_index' = node_index + placed
           /\ skipped_features' =
                  IF Len(bins) > placed /\ entry.FEATURE_NAME \notin Range(skipped_features)
                  THEN Append(skipped_features, entry.FEATURE_NAME)
                  ELSE skipped_features
    /\ dynamic_pos' = dynamic_pos + 1
    /\ UNCHANGED <<pc, inputVars, poolVars, allocVars, static_pos, remaining_nodes,
                   output_file, alloc>>

(***************************************************************************)
(* main, Step 11: sort by node_sort_key and write the dispatch file.       *)
(* node_sort_key gives an int for node<digits> and the name itself         *)
(* otherwise; list.sort raises TypeError when it compares an int to a str. *)
(***************************************************************************)
KeyIsInt(record) == IsNumericNode(record.NODE_NAME)

MixedKeys(records) ==
    \E a, b \in 1..Len(records) : KeyIsInt(records[a]) /\ ~KeyIsInt(records[b])

node_sort_key(record) ==
    IF KeyIsInt(record) THEN NodeNumber(record.NODE_NAME)
    ELSE StringRank(record.NODE_NAME)

SortedDispatch(records) ==
    LET order == StableSortByKey(Indices(records),
                     [k \in 1..Len(records) |-> node_sort_key(records[k])])
    IN  [k \in 1..Len(order) |-> records[order[k]]]

\* Seeded fault (sensitivity of NoPartialOutput): the plan is written
\* before it is sorted, so that a failing sort leaves a file behind.
WriteDispatchBeforeSort ==
    /\ pc = "dynamic"
    /\ dynamic_pos = Len(dynamic_features)
    /\ output_file' = Append(output_file, dispatch_entries)
    /\ IF MixedKeys(dispatch_entries)
       THEN Exit("error") /\ UNCHANGED dispatch_entries
       ELSE dispatch_entries' = SortedDispatch(dispatch_entries) /\ pc' = "done"
    /\ UNCHANGED twin_entries
    /\ UNCHANGED <<inputVars, poolVars, allocVars, static_pos, dynamic_pos, used_nodes,
                   remaining_nodes, node_index, skipped_features, emitted, alloc>>

WriteDispatch ==
    /\ pc = "dynamic"
    /\ dynamic_pos = Len(dynamic_features)
    /\ IF MixedKeys(dispatch_entries)
       THEN Exit("error") /\ UNCHANGED <<dispatch_entries, output_file>>
       ELSE /\ dispatch_entries' = SortedDispatch(dispatch_entries)
            /\ output_file' = Append(output_file, dispatch_entries')
            /\ pc' = "done"
    /\ twin_entries' = IF MixedKeys(twin_entries) THEN twin_entries
                       ELSE SortedDispatch(twin_entries)
    /\ UNCHANGED <<inputVars, poolVars, allocVars, static_pos, dynamic_pos, used_nodes,
                   remaining_nodes, node_index, skipped_features, emitted, alloc>>

(***************************************************************************)
(* The runs of main.                                                       *)
(***************************************************************************)
Computed ==
    /\ pc = "resolve_nodes"
    /\ jenkins_queried = FALSE
    /\ jenkins_idle_pool = <<>>
    /\ base_pool = <<>>
    /\ available_nodes = <<>>
    /\ twin_nodes = <<>>
    /\ feature_durations = <<>>
    /\ node_allocations = <<>>
    /\ static_features = <<>>
    /\ dynamic_features = <<>>
    /\ static_pos = 0
    /\ dynamic_pos = 0
    /\ used_nodes = {}
    /\ remaining_nodes = <<>>
    /\ node_index = 0
    /\ skipped_features = <<>>
    /\ dispatch_entries = <<>>
    /\ twin_entries = <<>>
    /\ emitted = [i \in 1..Len(feature_entries) |-> <<>>]
    /\ output_file = <<>>
    /\ alloc = NoAlloc

\* A run without filters that has loaded its catalog.
Unfiltered ==
    /\ feature_source = [kind |-> "entries", entries |-> feature_entries]
    /\ features_arg = <<"">>
    /\ exclude_arg = <<"">>
    /\ group_choice = "all"
    /\ group_filter = <<"">>
    /\ merged_features = merge_features(feature_entries)
    /\ merge = NoMerge
    /\ unit = NoUnit

\* Every catalog and duration data set, the pool given by --nodes alone.
InitPlanning ==
    /\ feature_entries \in Catalogs
    /\ Unfiltered
    /\ duration_entries \in DurationEntryLists
    /\ nodes_spec \in NodeSpecs
    /\ use_jenkins_nodes = FALSE
    /\ reserved_nodes = DEFAULT_RESERVED_NODES
    /\ exclude_nodes \in {{}, {"node1"}}
    /\ Computed

\* Every way of giving the node pool, the catalogs of features of two groups.
InitPools ==
    /\ feature_entries \in PlainCatalogs
    /\ Unfiltered
    /\ duration_entries = <<>>
    /\ nodes_spec \in NodeSpecs
    /\ use_jenkins_nodes \in BOOLEAN
    /\ reserved_nodes \in ReservedChoices
    /\ exclude_nodes \in ExcludeChoices
    /\ Computed

\* The runs from the start of main: every source outcome and filter
\* argument, the pool node1, node28, node29.
InitFront ==
    /\ pc = "load"
    /\ feature_source \in FrontSources
    /\ \E args \in FrontArgs :
           /\ features_arg = args.features
           /\ exclude_arg = args.exclude
           /\ group_choice = args.choice
           /\ group_filter = args.filter
    /\ merged_features = EmptyDict
    /\ merge = NoMerge
    /\ unit = NoUnit
    /\ feature_entries = <<>>
    /\ duration_entries = <<>>
    /\ nodes_spec = {"node1", "node28", "node29"}
    /\ use_jenkins_nodes = FALSE
    /\ reserved_nodes = DEFAULT_RESERVED_NODES
    /\ exclude_nodes = {}
    /\ jenkins_queried = FALSE
    /\ jenkins_idle_pool = <<>>
    /\ base_pool = <<>>
    /\ available_nodes = <<>>
    /\ twin_nodes = <<>>
    /\ feature_durations = <<>>
    /\ node_allocations = <<>>
    /\ static_features = <<>>
    /\ dynamic_features = <<>>
    /\ static_pos = 0
    /\ dynamic_pos = 0
    /\ used_nodes = {}
    /\ remaining_nodes = <<>>
    /\ node_index = 0
    /\ skipped_features = <<>>
    /\ dispatch_entries = <<>>
    /\ twin_entries = <<>>
    /\ emitted = <<>>
    /\ output_file = <<>>
    /\ alloc = NoAlloc

\* Pools with two names that have no number.
NamedNodeSpecs == {{"agent", "builder"}, {"agent", "builder", "node1"}}

InitNamedNodes ==
    /\ feature_entries \in PlainCatalogs
    /\ Unfiltered
    /\ duration_entries = <<>>
    /\ nodes_spec \in NamedNodeSpecs
    /\ use_jenkins_nodes = FALSE
    /\ reserved_nodes = DEFAULT_RESERVED_NODES
    /\ exclude_nodes = {}
    /\ Computed

\* Duration data of the file source that lists a feature twice, with two
\* different maps.
TwiceListed ==
    {<<[name |-> name, map |-> first], [name |-> name, map |-> second]>> :
        name \in {"foc", "dlp"},
        first \in {[g \in {"g1", "g2", "g3"} |-> IF g = "g1" THEN HalfHourText ELSE ZeroSecText]},
        second \in {[g \in {"g1", "g2"} |-> IF g = "g1" THEN TwoHourText ELSE HalfHourText]}}

\* The catalogs of features of two groups, with such duration data.
InitTwiceListed ==
    /\ feature_entries \in PlainCatalogs
    /\ Unfiltered
    /\ duration_entries \in TwiceListed
    /\ nodes_spec \in NodeSpecs
    /\ use_jenkins_nodes = FALSE
    /\ reserved_nodes = DEFAULT_RESERVED_NODES
    /\ exclude_nodes = {}
    /\ Computed

Init == InitPlanning \/ InitPools \/ InitFront \/ InitNamedNodes \/ InitTwiceListed

Next ==
    \/ LoadFeatures
    \/ FilterFeatures
    \/ FilterGroups
    \/ ResolveNodePool
    \/ Allocate
    \/ StaticStep
    \/ StartDynamic
    \/ DynamicStep
    \/ WriteDispatch

Spec == Init /\ [][Next]_vars

(***************************************************************************)
(* allocate_counts_to_nodes on its own, one loop pass per step.  A call    *)
(* gives each feature its total seconds and its number of test groups; a   *)
(* feature without groups has no seconds to sum.  Python computes          *)
(* raw_allocation in binary floating point; on the calls enumerated here   *)
(* its ordering of the raw and fractional values is the exact one.         *)
(***************************************************************************)
AllocGroupCounts == {0, 1, 2}

AllocFeatures ==
    {f \in [seconds : 0..MaxAllocSeconds, groups : AllocGroupCounts] :
        f.groups = 0 => f.seconds = 0}

AllocCalls ==
    {[durations |-> [i \in 1..Len(fs) |-> fs[i].seconds],
      node_count |-> N,
      group_counts |-> [i \in 1..Len(fs) |-> fs[i].groups]] :
        fs \in UNION {[1..n -> AllocFeatures] : n \in 1..MaxAllocFeatures},
        N \in 1..MaxAllocNodes}

NoLoop == [node_counts |-> <<>>, candidates |-> <<>>, index |-> 0, todo |-> 0]

mainVars == <<pc, inputVars, poolVars, allocVars, placeVars, output_file>>

\* The early returns, or the loop state before the first pass.
AllocBegin ==
    /\ alloc.phase = "call"
    /\ LET durations == alloc.call.durations
           node_count == alloc.call.node_count
       IN  alloc' =
               IF durations = <<>> \/ node_count <= 0 \/ SumSeq(durations) = 0
               THEN [alloc EXCEPT !.phase = "return",
                                  !.st.node_counts = AllOnes(durations)]
               ELSE [alloc EXCEPT !.phase = IF IsOver(durations, node_count)
                                            THEN "over" ELSE "under",
                                  !.st = AdjustStart(durations, node_count)]
    /\ UNCHANGED mainVars

AllocOverStep ==
    /\ alloc.phase = "over"
    /\ alloc.st.todo > 0 /\ alloc.st.candidates # <<>>
    /\ alloc' = [alloc EXCEPT !.st = OverStep(@)]
    /\ UNCHANGED mainVars

AllocUnderStep ==
    /\ alloc.phase = "under"
    /\ alloc.st.todo > 0
    /\ alloc' = [alloc EXCEPT !.st = UnderStep(@)]
    /\ UNCHANGED mainVars

\* The loops are over: the cap by group count, and the return.
AllocCap ==
    /\ \/ alloc.phase = "over" /\ ~(alloc.st.todo > 0 /\ alloc.st.candidates # <<>>)
       \/ alloc.phase = "under" /\ alloc.st.todo = 0
    /\ alloc' = [alloc EXCEPT !.phase = "return",
                              !.st.node_counts =
                                  CapToGroups(@, alloc.call.group_counts)]
    /\ UNCHANGED mainVars

InitAlloc ==
    /\ feature_source = [kind |-> "none"]
    /\ features_arg = <<"">>
    /\ exclude_arg = <<"">>
    /\ group_choice = "all"
    /\ group_filter = <<"">>
    /\ merged_features = EmptyDict
    /\ merge = NoMerge
    /\ unit = NoUnit
    /\ feature_entries = <<>>
    /\ duration_entries = <<>>
    /\ nodes_spec = {}
    /\ use_jenkins_nodes = FALSE
    /\ reserved_nodes = {}
    /\ exclude_nodes = {}
    /\ jenkins_queried = FALSE
    /\ jenkins_idle_pool = <<>>
    /\ base_pool = <<>>
    /\ available_nodes = <<>>
    /\ twin_nodes = <<>>
    /\ feature_durations = <<>>
    /\ node_allocations = <<>>
    /\ static_features = <<>>
    /\ dynamic_features = <<>>
    /\ static_pos = 0
    /\ dynamic_pos = 0
    /\ used_nodes = {}
    /\ remaining_nodes = <<>>
    /\ node_index = 0
    /\ skipped_features = <<>>
    /\ dispatch_entries = <<>>
    /\ twin_entries = <<>>
    /\ emitted = <<>>
    /\ output_file = <<>>
    /\ pc = "allocator"
    /\ \E call \in AllocCalls :
           alloc = [phase |-> "call", call |-> call, st |-> NoLoop]

NextAlloc ==
    \/ AllocBegin
    \/ AllocOverStep
    \/ AllocUnderStep
    \/ AllocCap

SpecAlloc == InitAlloc /\ [][NextAlloc]_vars

\* The function runs to its return: a pass of a loop that can be taken is
\* taken.
FairSpecAlloc == SpecAlloc /\ WF_vars(NextAlloc)

(***************************************************************************)
(* allocate_counts_to_nodes with more features and nodes, for the loop     *)
(* that takes nodes back: three features of two nodes or more and two of   *)
(* less than one need five features and six nodes.  No feature has groups, *)
(* so the cap leaves the counts as they are.                               *)
(***************************************************************************)
MaxOverFeatures == 5
MaxOverNodes == 6
MaxOverSeconds == 2

OverCalls ==
    {[durations |-> durations,
      node_count |-> N,
      group_counts |-> [i \in 1..Len(durations) |-> 0]] :
        durations \in UNION {[1..n -> 0..MaxOverSeconds] : n \in 1..MaxOverFeatures},
        N \in 1..MaxOverNodes}

InitOver ==
    /\ feature_source = [kind |-> "none"]
    /\ features_arg = <<"">>
    /\ exclude_arg = <<"">>
    /\ group_choice = "all"
    /\ group_filter = <<"">>
    /\ merged_features = EmptyDict
    /\ merge = NoMerge
    /\ unit = NoUnit
    /\ feature_entries = <<>>
    /\ duration_entries = <<>>
    /\ nodes_spec = {}
    /\ use_jenkins_nodes = FALSE
    /\ reserved_nodes = {}
    /\ exclude_nodes = {}
    /\ jenkins_queried = FALSE
    /\ jenkins_idle_pool = <<>>
    /\ base_pool = <<>>
    /\ available_nodes = <<>>
    /\ twin_nodes = <<>>
    /\ feature_durations = <<>>
    /\ node_allocations = <<>>
    /\ static_features = <<>>
    /\ dynamic_features = <<>>
    /\ static_pos = 0
    /\ dynamic_pos = 0
    /\ used_nodes = {}
    /\ remaining_nodes = <<>>
    /\ node_index = 0
    /\ skipped_features = <<>>
    /\ dispatch_entries = <<>>
    /\ twin_entries = <<>>
    /\ emitted = <<>>
    /\ output_file = <<>>
    /\ pc = "allocator"
    /\ \E call \in OverCalls :
           alloc = [phase |-> "call", call |-> call, st |-> NoLoop]

SpecOver == InitOver /\ [][NextAlloc]_vars

\* The stepwise run returns what the operator computes.
AllocReturnsOperator ==
    (pc = "allocator" /\ alloc.phase = "return") =>
        alloc.st.node_counts =
            allocate_counts_to_nodes(alloc.call.durations, alloc.call.node_count,
                                     alloc.call.group_counts)

(***************************************************************************)
(* merge_features on its own, one entry per step, and a second call on the *)
(* catalog the first returned.                                             *)
(***************************************************************************)
\* Entries of the file and of the API source: list fields with repeated
\* values, scalar fields under both spellings and null, names under the
\* other keys, email as a string and as a list.
MergeEntries ==
    {[FEATURE_NAME |-> "dlp", test_groups |-> <<"a.crit", "a.crit">>],
     [FEATURE_NAME |-> "dlp", test_groups |-> <<"b.full", "a.crit">>,
      test_config |-> <<"c.tmp">>, email |-> EmailStr(ZoeText),
      ORIOLE_SUBMIT_FLAG |-> "succeeded"],
     [FEATURE_NAME |-> "", name |-> "dlp", docker_compose |-> <<"d*", "d*">>,
      oriole_submit_flag |-> None, provision_vmpc |-> "yes"],
     [FEATURE_NAME |-> "ips", test_groups |-> <<"a.crit">>,
      email |-> EmailList(<<AliceZoeText, <<"alice@fortinet.com">>>>),
      PROVISION_VMPC |-> "no", provision_vmpc |-> "yes"],
     [FEATURE_NAME |-> "ips", test_case_folder |-> <<"p">>,
      test_groups |-> <<"a.crit", "c.tmp">>, email |-> EmailStr(<<" ">>)],
     [feature_name |-> "ips", test_groups |-> <<>>, VMPC_NAMES |-> None,
      oriole_submit_flag |-> "succeeded"],
     [FEATURE_NAME |-> "", test_groups |-> <<"zzz">>]}

MergeInputs == UNION {[1..n -> MergeEntries] : n \in 1..(MaxFeatures + 1)}

\* "if ORIOLE_SUBMIT_FLAG not in base" of the loop that ends merge_features.
WithDefaultFlag(merged) ==
    [name \in DOMAIN merged |->
        IF "ORIOLE_SUBMIT_FLAG" \in DOMAIN merged[name] THEN merged[name]
        ELSE merged[name] @@ ("ORIOLE_SUBMIT_FLAG" :> "all")]

\* The merged catalog as a list of entries: each merged record together
\* with its FEATURE_NAME, in the order of the dictionary.
CatalogOf(merged, order) ==
    [k \in 1..Len(order) |-> merged[order[k]] @@ ("FEATURE_NAME" :> order[k])]

\* "for raw in entries": one entry.
MergeEntry ==
    /\ pc = "merge"
    /\ merge.phase = "loop"
    /\ merge.pos < Len(merge.entries)
    /\ LET raw == merge.entries[merge.pos + 1]
           feature_name == ResolvedName(raw)
       IN  merge' = [merge EXCEPT
                        !.pos = @ + 1,
                        !.merged = MergeOne(@, raw),
                        !.order = IF feature_name = "" \/ feature_name \in Range(@)
                                  THEN @ ELSE Append(@, feature_name)]
    /\ UNCHANGED <<pc, unit, feature_source, merged_features, feature_entries, nodeArgVars,
                   argVars, poolVars, allocVars, placeVars, output_file, alloc>>

MergeReturn ==
    /\ pc = "merge"
    /\ merge.phase = "loop"
    /\ merge.pos = Len(merge.entries)
    /\ merge' = [merge EXCEPT !.phase = "returned", !.merged = WithDefaultFlag(@)]
    /\ UNCHANGED <<pc, unit, feature_source, merged_features, feature_entries, nodeArgVars,
                   argVars, poolVars, allocVars, placeVars, output_file, alloc>>

\* The catalog returned is given to merge_features again.
MergeAgain ==
    /\ pc = "merge"
    /\ merge.phase = "returned"
    /\ merge.pass = 1
    /\ merge' = [phase |-> "loop", pass |-> 2,
                 entries |-> CatalogOf(merge.merged, merge.order), pos |-> 0,
                 merged |-> EmptyDict, order |-> <<>>,
                 input |-> merge.input,
                 first |-> merge.merged, first_order |-> merge.order]
    /\ UNCHANGED <<pc, unit, feature_source, merged_features, feature_entries, nodeArgVars,
                   argVars, poolVars, allocVars, placeVars, output_file, alloc>>

InitMerge ==
    /\ feature_source = [kind |-> "none"]
    /\ features_arg = <<"">>
    /\ exclude_arg = <<"">>
    /\ group_choice = "all"
    /\ group_filter = <<"">>
    /\ merged_features = EmptyDict
    /\ feature_entries = <<>>
    /\ duration_entries = <<>>
    /\ nodes_spec = {}
    /\ use_jenkins_nodes = FALSE
    /\ reserved_nodes = {}
    /\ exclude_nodes = {}
    /\ jenkins_queried = FALSE
    /\ jenkins_idle_pool = <<>>
    /\ base_pool = <<>>
    /\ available_nodes = <<>>
    /\ twin_nodes = <<>>
    /\ feature_durations = <<>>
    /\ node_allocations = <<>>
    /\ static_features = <<>>
    /\ dynamic_features = <<>>
    /\ static_pos = 0
    /\ dynamic_pos = 0
    /\ used_nodes = {}
    /\ remaining_nodes = <<>>
    /\ node_index = 0
    /\ skipped_features = <<>>
    /\ dispatch_entries = <<>>
    /\ twin_entries = <<>>
    /\ emitted = <<>>
    /\ output_file = <<>>
    /\ alloc = NoAlloc
    /\ unit = NoUnit
    /\ pc = "merge"
    /\ \E entries \in MergeInputs :
           merge = [phase |-> "loop", pass |-> 1, entries |-> entries, pos |-> 0,
                    merged |-> EmptyDict, order |-> <<>>, input |-> entries,
                    first |-> EmptyDict, first_order |-> <<>>]

NextMerge ==
    \/ MergeEntry
    \/ MergeReturn
    \/ MergeAgain

SpecMerge == InitMerge /\ [][NextMerge]_vars

\* The stepwise run returns what the operator computes.
MergeReturnsOperator ==
    (pc = "merge" /\ merge.phase = "returned") =>
        merge.merged = merge_features(merge.entries)

(***************************************************************************)
(* The functions of the program run on their own.  main is at rest: no     *)
(* catalog, no pool, no plan.                                              *)
(***************************************************************************)
MainAtRest ==
    /\ feature_source = [kind |-> "none"]
    /\ features_arg = <<"">>
    /\ exclude_arg = <<"">>
    /\ group_choice = "all"
    /\ group_filter = <<"">>
    /\ merged_features = EmptyDict
    /\ merge = NoMerge
    /\ feature_entries = <<>>
    /\ duration_entries = <<>>
    /\ nodes_spec = {}
    /\ use_jenkins_nodes = FALSE
    /\ reserved_nodes = {}
    /\ exclude_nodes = {}
    /\ jenkins_queried = FALSE
    /\ jenkins_idle_pool = <<>>
    /\ base_pool = <<>>
    /\ available_nodes = <<>>
    /\ twin_nodes = <<>>
    /\ feature_durations = <<>>
    /\ node_allocations = <<>>
    /\ static_features = <<>>
    /\ dynamic_features = <<>>
    /\ static_pos = 0
    /\ dynamic_pos = 0
    /\ used_nodes = {}
    /\ remaining_nodes = <<>>
    /\ node_index = 0
    /\ skipped_features = <<>>
    /\ dispatch_entries = <<>>
    /\ twin_entries = <<>>
    /\ emitted = <<>>
    /\ output_file = <<>>
    /\ alloc = NoAlloc
    /\ pc = "unit"

restVars == <<pc, feature_source, merged_features, merge, feature_entries, nodeArgVars,
              argVars, poolVars, allocVars, placeVars, output_file, alloc>>

(***************************************************************************)
(* parse_duration_to_seconds and format_seconds_to_duration, one after the *)
(* other, on the texts "<H> hr <M> min <S> sec" with every part optional.  *)
(***************************************************************************)
DurationParts(max) == {Missing} \cup 0..max

DurationTexts ==
    {DurationText(h, m, sec) :
        h \in DurationParts(MaxHours), m \in DurationParts(MaxPart),
        sec \in DurationParts(MaxPart)}

ParseDuration ==
    /\ unit.fn = "duration" /\ unit.phase = "text"
    /\ unit' = [unit EXCEPT !.phase = "parsed",
                            !.seconds = parse_duration_to_seconds(unit.text)]
    /\ UNCHANGED restVars

FormatDuration ==
    /\ unit.fn = "duration" /\ unit.phase = "parsed"
    /\ unit' = [unit EXCEPT !.phase = "formatted",
                            !.formatted = format_seconds_to_duration(unit.seconds)]
    /\ UNCHANGED restVars

InitDuration ==
    /\ MainAtRest
    /\ \E text \in DurationTexts :
           unit = [fn |-> "duration", phase |-> "text", text |-> text,
                   seconds |-> 0, formatted |-> text]

NextDuration == ParseDuration \/ FormatDuration

SpecDuration == InitDuration /\ [][NextDuration]_vars

(***************************************************************************)
(* FeatureParametersGetter.get_feature_entries: the catalog from the HTTP  *)
(* endpoint, with the feature list file as fallback.  A record of the      *)
(* payload is a function from its keys to their values; an element that is *)
(* not a JSON object is a record with the one key nondict.                 *)
(***************************************************************************)
IsDict(item) == "nondict" \notin DOMAIN item

\* The keys of a record whose values are strings or lists; under any other
\* key (a feature name) the value is a configuration object.
FieldKeys == {"FEATURE_NAME", "feature_name", "feature", "name", "test_groups",
              "enabled"}

\* Records of a payload: named, named under another key, with an empty
\* name, without a name, not an object, with the one key name.
ApiItems ==
    {[FEATURE_NAME |-> "dlp", test_groups |-> <<"a.crit">>],
     [feature_name |-> "ips", test_groups |-> <<"b.full">>],
     [FEATURE_NAME |-> "", test_groups |-> <<"a.crit">>],
     [FEATURE_NAME |-> "", name |-> "foc", test_groups |-> <<"c.tmp">>],
     [test_groups |-> <<"c.tmp">>, enabled |-> "yes"],
     [nondict |-> "text"],
     [name |-> "waf"]}

\* The file may also hold the form {feature name: configuration}.
FileItems == ApiItems \cup {[foc |-> [test_groups |-> <<"a.crit">>]]}

ItemLists(items) == UNION {[1..n -> items] : n \in 0..MaxFeatures}

\* {feature_name: config} as a whole payload or file.
NameMaps == {<<"dlp", "ips">>, <<"foc">>}

\* What session.get gives: no connection, a refusal, a server error, or a
\* payload that is a list, a paginated object, a name map or a number.
ApiAnswers ==
    {[kind |-> k] : k \in {"down", "unauthorized", "server_error", "scalar"}}
    \cup {[kind |-> k, items |-> items] :
              k \in {"list", "paged"}, items \in ItemLists(ApiItems)}
    \cup {[kind |-> "map", names |-> names] : names \in NameMaps}

\* The feature list file: none configured, not there, or its JSON content.
FeatureFiles ==
    {[kind |-> k] : k \in {"unset", "missing", "scalar"}}
    \cup {[kind |-> "list", items |-> items] : items \in ItemLists(FileItems)}
    \cup {[kind |-> "map", names |-> names] : names \in NameMaps}

Raised == [kind |-> "raised"]

Loaded(entries) == [kind |-> "entries", entries |-> entries]

\* entry = {"FEATURE_NAME": feature_name}; entry.update(config)
NamedEntry(feature_name, config) ==
    [k \in DOMAIN config \cup {"FEATURE_NAME"} |->
        IF k \in DOMAIN config THEN config[k] ELSE feature_name]

EntriesOfMap(names) ==
    [k \in 1..Len(names) |-> [FEATURE_NAME |-> names[k]]]

\* The name the loop of _fetch_from_api promotes to FEATURE_NAME.
PromotedName(item) ==
    LET given(k) == k \in DOMAIN item /\ item[k] # ""
        keys == SelectSeq(<<"FEATURE_NAME", "feature_name", "feature", "name">>, given)
    IN  IF keys # <<>> THEN item[keys[1]] ELSE ""

\* "for i, item in enumerate(items)" of _fetch_from_api.
ApiEntries(items) ==
    LET kept == SelectSeq(items, LAMBDA item : IsDict(item) /\ PromotedName(item) # "")
    IN  [k \in 1..Len(kept) |->
            [key \in DOMAIN kept[k] \cup {"FEATURE_NAME"} |->
                IF key = "FEATURE_NAME" THEN PromotedName(kept[k]) ELSE kept[k][key]]]

\* _fetch_from_api: the entries, or an exception.  A paginated object whose
\* items are empty is read as a name map, with the key items as a name.
fetch_from_api(answer) ==
    IF answer.kind \in {"down", "unauthorized", "server_error", "scalar"} THEN Raised
    ELSE IF answer.kind = "map" THEN Loaded(EntriesOfMap(answer.names))
    ELSE IF answer.kind = "paged" /\ answer.items = <<>>
         THEN Loaded(EntriesOfMap(<<"items">>))
    ELSE Loaded(ApiEntries(answer.items))

\* An element of the list of a JSON file that the loop decodes: an object
\* with the key FEATURE_NAME, or with one key whose value is an object.
FileItemDecodes(item) ==
    /\ IsDict(item)
    /\ \/ "FEATURE_NAME" \in DOMAIN item
       \/ /\ Cardinality(DOMAIN item) = 1
          /\ DOMAIN item \cap FieldKeys = {}

FileEntry(item) ==
    IF "FEATURE_NAME" \in DOMAIN item THEN item
    ELSE LET feature_name == CHOOSE k \in DOMAIN item : TRUE
         IN  NamedEntry(feature_name, item[feature_name])

\* _load_feature_list on a JSON file: the entries, or an exception.
load_feature_list(file) ==
    IF file.kind \in {"missing", "scalar"} THEN Raised
    ELSE IF file.kind = "map" THEN Loaded(EntriesOfMap(file.names))
    ELSE IF \E k \in 1..Len(file.items) : ~FileItemDecodes(file.items[k]) THEN Raised
    ELSE Loaded([k \in 1..Len(file.items) |-> FileEntry(file.items[k])])

\* "if self.use_api and self.api_url": the request to the endpoint.
TryApi ==
    /\ unit.fn = "get_feature_entries" /\ unit.phase = "start"
    /\ unit.use_api
    /\ LET got == fetch_from_api(unit.api)
       IN  unit' = [unit EXCEPT
                       !.asked = Append(@, "api"),
                       !.result = got,
                       !.phase = IF got.kind = "entries" THEN "returned"
                                 ELSE IF unit.file.kind # "unset" THEN "fallback"
                                 ELSE "raised"]
    /\ UNCHANGED restVars

\* "if self.fallback_file": the file, first or after the endpoint failed.
ReadFeatureFile ==
    /\ unit.fn = "get_feature_entries"
    /\ \/ unit.phase = "start" /\ ~unit.use_api
       \/ unit.phase = "fallback"
    /\ unit.file.kind # "unset"
    /\ LET got == load_feature_list(unit.file)
       IN  unit' = [unit EXCEPT
                       !.asked = Append(@, "file"),
                       !.result = got,
                       !.phase = IF got.kind = "entries" THEN "returned" ELSE "raised"]
    /\ UNCHANGED restVars

\* Neither the endpoint nor a file: sys.exit(1).
NoFeatureSource ==
    /\ unit.fn = "get_feature_entries" /\ unit.phase = "start"
    /\ ~unit.use_api /\ unit.file.kind = "unset"
    /\ unit' = [unit EXCEPT !.phase = "exit1"]
    /\ UNCHANGED restVars

InitFeatureSource ==
    /\ MainAtRest
    /\ \E use_api \in BOOLEAN, api \in ApiAnswers, file \in FeatureFiles :
           /\ ~use_api => api.kind = "down"
           /\ unit = [fn |-> "get_feature_entries", phase |-> "start",
                      use_api |-> use_api, api |-> api, file |-> file,
                      asked |-> <<>>, result |-> Raised]

(***************************************************************************)
(* get_duration_entries: the durations from the document store, with the   *)
(* duration file as fallback.  group_len is the length of the longest      *)
(* group name of the data.                                                 *)
(***************************************************************************)
\* Durations whose longest group name has four characters, or nine.
DurationData ==
    {[kind |-> "data", entries |-> entries, group_len |-> n] :
        entries \in DurationEntryLists, n \in {4, 9}}

\* mongo_client and what find_latest_durations gives: no client (--no-mongo
\* or a failed connection), an exception, or the latest durations.
DurationStores == {[kind |-> k] : k \in {"no_client", "raises"}} \cup DurationData

\* --durations: no path, a path without a file, a file that does not
\* decode, or its pairs.
DurationFiles == {[kind |-> k] : k \in {"unset", "absent", "invalid"}} \cup DurationData

\* log_duration_summary_table returns: its footer pads by
\* max(longest group name, len("GROUP")) - 9, and a negative width raises.
SummaryTableLogged(data) == Max(data.group_len, 5) - 9 >= 0

\* "if mongo_client": find_latest_durations and the summary table.
TryMongo ==
    /\ unit.fn = "get_duration_entries" /\ unit.phase = "start"
    /\ unit.store.kind # "no_client"
    /\ LET store == unit.store
           given == /\ store.kind = "data"
                    /\ store.entries # <<>>
                    /\ SummaryTableLogged(store)
       IN  unit' = [unit EXCEPT
                       !.asked = Append(@, "mongo"),
                       !.result = IF given THEN store.entries ELSE <<>>,
                       !.source = IF given THEN "mongo" ELSE @,
                       !.phase = IF given THEN "returned" ELSE "fallback"]
    /\ UNCHANGED restVars

\* "if fallback_file and os.path.exists(fallback_file)".
ReadDurationFile ==
    /\ unit.fn = "get_duration_entries"
    /\ \/ unit.phase = "start" /\ unit.store.kind = "no_client"
       \/ unit.phase = "fallback"
    /\ unit.file.kind \notin {"unset", "absent"}
    /\ LET file == unit.file
           given == /\ file.kind = "data"
                    /\ file.entries # <<>> => SummaryTableLogged(file)
       IN  unit' = [unit EXCEPT
                       !.asked = Append(@, "file"),
                       !.result = IF given THEN file.entries ELSE <<>>,
                       !.source = IF given THEN "file" ELSE @,
                       !.phase = "returned"]
    /\ UNCHANGED restVars

\* "No duration data available - will use default 1hr per group".
DefaultDurations ==
    /\ unit.fn = "get_duration_entries"
    /\ \/ unit.phase = "start" /\ unit.store.kind = "no_client"
       \/ unit.phase = "fallback"
    /\ unit.file.kind \in {"unset", "absent"}
    /\ unit' = [unit EXCEPT !.phase = "returned", !.result = <<>>]
    /\ UNCHANGED restVars

InitDurationSource ==
    /\ MainAtRest
    /\ \E store \in DurationStores, file \in DurationFiles :
           unit = [fn |-> "get_duration_entries", phase |-> "start",
                   store |-> store, file |-> file,
                   asked |-> <<>>, result |-> <<>>, source |-> "default"]

InitSources == InitFeatureSource \/ InitDurationSource

NextSources ==
    \/ TryApi
    \/ ReadFeatureFile
    \/ NoFeatureSource
    \/ TryMongo
    \/ ReadDurationFile
    \/ DefaultDurations

SpecSources == InitSources /\ [][NextSources]_vars

(***************************************************************************)
(* get_idle_jenkins_nodes: the idle nodes of the controller.  A computer   *)
(* of the answer has a displayName ("" when it has none), the flag offline *)
(* and its executors, each with the full name of the job it runs or idle.  *)
(***************************************************************************)
MaxComputers == 2

JobNames == {"fortistack_runtest #7", "fortistackRunTests #2",
             "fortistack_provision_fgts #1", "fortistackProvisionTestEnv #4",
             "build_docs #3", "fortistack_run"}

IdleExecutor == [kind |-> "idle"]

RunningExecutor(job) == [kind |-> "job", fullDisplayName |-> job]

ExecutorLists ==
    {<<>>, <<IdleExecutor>>, <<IdleExecutor, RunningExecutor("fortistackRunTests #2")>>}
    \cup {<<RunningExecutor(job)>> : job \in JobNames}

Computers == [displayName : {"node1", "node29", "master", ""},
              offline : BOOLEAN,
              executors : ExecutorLists]

ComputerLists == UNION {[1..n -> Computers] : n \in 1..MaxComputers}

\* The prefixes of the job names that make a node busy.
BusyPrefixes == {"fortistackRunTests", "fortistackProvisionTestEnv",
                 "fortistack_provision_fgts"}

\* job_name.startswith(...) for an executor with a currentExecutable.
ExecutorBusy(executor) ==
    /\ executor.kind = "job"
    /\ \E prefix \in BusyPrefixes :
           IsPrefix(Chars[prefix], Chars[executor.fullDisplayName])

\* The test of the loop over data["computer"].
ComputerIdle(computer) ==
    /\ computer.displayName # ""
    /\ computer.displayName # "master"
    /\ ~computer.offline
    /\ \A k \in 1..Len(computer.executors) : ~ExecutorBusy(computer.executors[k])

\* available_nodes.sort(key=...): stable, names that are not node<digits>
\* last.
RECURSIVE NumericSort(_)
NumericSort(names) ==
    IF names = <<>> THEN <<>>
    ELSE LET sorted == NumericSort(SubSeq(names, 1, Len(names) - 1))
             x == names[Len(names)]
             k == Cardinality({j \in 1..Len(sorted) : NumericKeyLeq(sorted[j], x)})
         IN  SubSeq(sorted, 1, k) \o <<x>> \o SubSeq(sorted, k + 1, Len(sorted))

get_idle_jenkins_nodes(computers) ==
    LET idle == SelectSeq(computers, ComputerIdle)
    IN  NumericSort([k \in 1..Len(idle) |-> idle[k].displayName])

\* The request, and the list of the idle nodes or sys.exit(1).
GetIdleJenkinsNodes ==
    /\ unit.fn = "get_idle_jenkins_nodes" /\ unit.phase = "start"
    /\ unit' = IF unit.answered
               THEN [unit EXCEPT !.phase = "returned",
                                 !.result = get_idle_jenkins_nodes(unit.computers)]
               ELSE [unit EXCEPT !.phase = "exit1"]
    /\ UNCHANGED restVars

InitIdle ==
    /\ MainAtRest
    /\ \E answered \in BOOLEAN, computers \in ComputerLists :
           /\ ~answered => computers = <<[displayName |-> "node1", offline |-> FALSE,
                                         executors |-> <<>>]>>
           /\ unit = [fn |-> "get_idle_jenkins_nodes", phase |-> "start",
                      answered |-> answered, computers |-> computers,
                      result |-> <<>>]

NextIdle == GetIdleJenkinsNodes

SpecIdle == InitIdle /\ [][NextIdle]_vars

(***************************************************************************)
(* distribute_groups_across_nodes on its own: a map from group names to    *)
(* seconds, its items in insertion order, and a number of bins.            *)
(***************************************************************************)
MaxPackGroups == 3
MaxBins == 3

PackSeconds == {0, 1800, DefaultGroupSeconds}

\* The maps of up to MaxPackGroups groups: no group name twice.
PackMaps ==
    UNION {{m \in [1..n -> [group : Range(GroupUniverse), seconds : PackSeconds]] :
               \A i, j \in 1..n : m[i].group = m[j].group => i = j} :
           n \in 0..MaxPackGroups}

Distribute ==
    /\ unit.fn = "distribute_groups_across_nodes" /\ unit.phase = "start"
    /\ unit' = [unit EXCEPT
                   !.phase = "returned",
                   !.bins = distribute_groups_across_nodes(unit.group_duration_map,
                                                           unit.bin_count)]
    /\ UNCHANGED restVars

InitPack ==
    /\ MainAtRest
    /\ \E group_duration_map \in PackMaps, bin_count \in (0 - 1)..MaxBins :
           unit = [fn |-> "distribute_groups_across_nodes", phase |-> "start",
                   group_duration_map |-> group_duration_map,
                   bin_count |-> bin_count, bins |-> <<>>]

NextPack == Distribute

SpecPack == InitPack /\ [][NextPack]_vars

(***************************************************************************)
(* Properties of the dispatch plan.                                        *)
(***************************************************************************)
NodeNames(records) == [k \in 1..Len(records) |-> records[k].NODE_NAME]

RecordsOf(records, name) == SelectSeq(records, LAMBDA r : r.FEATURE_NAME = name)

\* The TEST_GROUPS of the records of a feature, one after the other.
GroupsOf(records, name) ==
    FlattenSeq([k \in 1..Len(RecordsOf(records, name)) |->
                   RecordsOf(records, name)[k].TEST_GROUPS])

\* Every record sequence the run has built or written.
Plans == {dispatch_entries} \cup Range(output_file)

NameOnce(i) ==
    \A j \in 1..Len(feature_entries) :
        feature_entries[j].FEATURE_NAME = feature_entries[i].FEATURE_NAME => j = i

BoundAndDynamic(records) ==
    /\ \E k \in 1..Len(records) : IsStatic(records[k].FEATURE_NAME)
    /\ \E k \in 1..Len(records) : ~IsStatic(records[k].FEATURE_NAME)

\* C1: node exclusivity.  In every record sequence main builds or writes,
\* static phase and dynamic phase together, no two records have the same
\* NODE_NAME.
NodeExclusivity == \A plan \in Plans : NoDuplicates(NodeNames(plan))

\* A written plan of three records or more, with records of both phases.
NodeExclusivityWitness ==
    /\ pc = "done"
    /\ Len(output_file[1]) >= 3
    /\ BoundAndDynamic(output_file[1])

AllowedNodes == (Range(base_pool) \ reserved_nodes) \ exclude_nodes

\* The run has been through get_final_node_pool: it is past the loading and
\* the filters, which left it with features.
PoolResolved ==
    /\ pc \notin {"load", "filter_features", "filter_groups", "resolve_nodes"}
    /\ feature_entries # <<>>
    /\ Len(emitted) = Len(feature_entries)

\* C2: no reserved or additionally excluded node is used.  Every NODE_NAME of
\* a plan is in base pool minus reserved minus excluded, for static-bound and
\* dynamic features alike; and when that set is empty the run has failed
\* with no plan built or written.
NoReservedNodeUsed ==
    /\ \A plan \in Plans : Range(NodeNames(plan)) \subseteq AllowedNodes
    /\ (PoolResolved /\ AllowedNodes = {}) =>
           (pc = "exit1" /\ dispatch_entries = <<>> /\ output_file = <<>>)

\* A written plan with records of both phases, from a base pool that holds a
\* reserved or an excluded node.
NoReservedNodeUsedWitness ==
    /\ pc = "done"
    /\ Range(base_pool) \cap (reserved_nodes \cup exclude_nodes) # {}
    /\ BoundAndDynamic(output_file[1])

\* C3: static honored.  Every record whose FEATURE_NAME is a key of
\* FEATURE_NODE_STATIC_BINDING has a NODE_NAME that is listed in that
\* feature's binding and is in the available pool.
StaticHonored ==
    \A plan \in Plans : \A k \in 1..Len(plan) :
        IsStatic(plan[k].FEATURE_NAME) =>
            plan[k].NODE_NAME \in
                Range(FEATURE_NODE_STATIC_BINDING[plan[k].FEATURE_NAME])
                    \cap Range(available_nodes)

\* A written plan in which a bound feature runs although one of its bound
\* nodes is not available.
StaticHonoredWitness ==
    /\ pc = "done"
    /\ \E k \in 1..Len(output_file[1]) :
           LET name == output_file[1][k].FEATURE_NAME
           IN  /\ IsStatic(name)
               /\ Len(ValidStaticNodes(name)) < Len(StaticNodes(name))

\* C4: group conservation (static).  In a written plan, for every
\* static-bound feature with at least one bound node in the available pool,
\* the TEST_GROUPS of its records together are, as a multiset, its filtered
\* group list.
StaticGroupConservation ==
    pc = "done" =>
        \A i \in 1..Len(feature_entries) :
            LET name == feature_entries[i].FEATURE_NAME
            IN  (IsStatic(name) /\ ValidStaticNodes(name) # <<>>) =>
                    SameMultiset(GroupsOf(output_file[1], name),
                                 feature_entries[i].test_groups)

\* The same for the features whose list names no group twice.
StaticGroupConservationDistinct ==
    pc = "done" =>
        \A i \in 1..Len(feature_entries) :
            LET name == feature_entries[i].FEATURE_NAME
            IN  (/\ IsStatic(name) /\ ValidStaticNodes(name) # <<>>
                 /\ NoDuplicates(feature_entries[i].test_groups)) =>
                    SameMultiset(GroupsOf(output_file[1], name),
                                 feature_entries[i].test_groups)

\* The TEST_GROUPS of the records of a feature are the first bins, in bin
\* order, of the bins packed for catalog entry i.
EmittedPrefix(records, i) ==
    LET own == RecordsOf(records, feature_entries[i].FEATURE_NAME)
        bins == DynamicBins(i)
    IN  IsPrefix([k \in 1..Len(own) |-> own[k].TEST_GROUPS],
                 [k \in 1..Len(bins) |-> bins[k].groups])

\* C5: group conservation (dynamic).  In a written plan, for every dynamic
\* feature listed once, the TEST_GROUPS of its records together are, as a
\* multiset, its filtered group list, unless nodes ran out for it; then they
\* are exactly a prefix, in bin order, of its packed bins.
DynamicGroupConservation ==
    pc = "done" =>
        \A i \in 1..Len(feature_entries) :
            LET name == feature_entries[i].FEATURE_NAME
            IN  (~IsStatic(name) /\ NameOnce(i)) =>
                    IF name \in Range(skipped_features)
                    THEN EmittedPrefix(output_file[1], i)
                    ELSE SameMultiset(GroupsOf(output_file[1], name),
                                      feature_entries[i].test_groups)

\* The same for the features whose list names no group twice.
DynamicGroupConservationDistinct ==
    pc = "done" =>
        \A i \in 1..Len(feature_entries) :
            LET name == feature_entries[i].FEATURE_NAME
            IN  (/\ ~IsStatic(name) /\ NameOnce(i)
                 /\ NoDuplicates(feature_entries[i].test_groups)) =>
                    IF name \in Range(skipped_features)
                    THEN EmittedPrefix(output_file[1], i)
                    ELSE SameMultiset(GroupsOf(output_file[1], name),
                                      feature_entries[i].test_groups)

Allocated == node_allocations # <<>>

\* C6: bin bound.  For each catalog entry to which the allocator assigned c
\* nodes, the number of records emitted for it is at most c.
BinBound ==
    Allocated =>
        \A i \in 1..Len(feature_entries) : Len(emitted[i]) <= node_allocations[i]

\* C6, amended: the bound by c holds for the dynamic features; a
\* static-bound feature gets at most one record per bound node that is
\* available, whatever c is.
DynamicBinBound ==
    Allocated =>
        \A i \in 1..Len(feature_entries) :
            IF IsStatic(feature_entries[i].FEATURE_NAME)
            THEN Len(emitted[i]) <=
                     Len(ValidStaticNodes(feature_entries[i].FEATURE_NAME))
            ELSE Len(emitted[i]) <= node_allocations[i]

\* A written plan in which a static-bound feature has more records than the
\* allocator gave it nodes, next to a dynamic feature with as many as it got.
DynamicBinBoundWitness ==
    /\ pc = "done"
    /\ \E i \in 1..Len(feature_entries) :
           /\ IsStatic(feature_entries[i].FEATURE_NAME)
           /\ Len(emitted[i]) > node_allocations[i]
    /\ \E i \in 1..Len(feature_entries) :
           /\ ~IsStatic(feature_entries[i].FEATURE_NAME)
           /\ Len(emitted[i]) = node_allocations[i]

\* C7: every record has a non-empty TEST_GROUPS list (an empty bin gives no
\* record and takes no node), in the static and in the dynamic phase,
\* zero-second durations included.
NonEmptyRecords ==
    \A plan \in Plans : \A k \in 1..Len(plan) : plan[k].TEST_GROUPS # <<>>

\* The static phase alone does skip the empty bins.
NonEmptyStaticRecords ==
    \A plan \in Plans : \A k \in 1..Len(plan) :
        IsStatic(plan[k].FEATURE_NAME) => plan[k].TEST_GROUPS # <<>>

\* C10: InsufficientNodes is never fatal.  Once the static phase is through
\* without a conflict, however many nodes it left, the run does not exit
\* with status 1.
InsufficientNodesNotFatal ==
    (Allocated /\ static_pos = Len(static_features)) => pc # "exit1"

\* With a node left for the dynamic phase the run does go on to the sort.
InsufficientNodesNotFatalWithNodes ==
    (Allocated /\ static_pos = Len(static_features) /\ remaining_nodes # <<>>) =>
        pc # "exit1"

(***************************************************************************)
(* Properties of allocate_counts_to_nodes.                                 *)
(***************************************************************************)
Returned == pc = "allocator" /\ alloc.phase = "return"

\* C8: allocator sum bound.  For every non-empty vector of total seconds,
\* every group-count vector and every node count N >= 1, the returned
\* counts sum to at most N.
AllocatorSumBound ==
    Returned => SumSeq(alloc.st.node_counts) <= alloc.call.node_count

\* C8, amended: the returned counts sum to at most the larger of N and the
\* number of features (each feature keeps one node).
AllocatorSumWithinNodesOrFeatures ==
    Returned =>
        SumSeq(alloc.st.node_counts) <=
            Max(alloc.call.node_count, Len(alloc.call.durations))

\* A return with more features than nodes, after passes of the decrement
\* loop, where the counts sum to the number of features.
AllocatorSumWitness ==
    /\ Returned
    /\ alloc.st.index >= 1
    /\ Len(alloc.call.durations) > alloc.call.node_count
    /\ SumSeq(alloc.st.node_counts) = Len(alloc.call.durations)

StaticConflict ==
    /\ pc = "static"
    /\ static_pos < Len(static_features)
    /\ \E node \in Range(ValidStaticNodes(
                  feature_entries[static_features[static_pos + 1]].FEATURE_NAME)) :
           node \in used_nodes

\* C11: StaticConflict is fatal.  When the static phase comes to a feature
\* one of whose available bound nodes was claimed by a static binding
\* processed before it, the step taken is the exit with code 1, and a run
\* that has exited with code 1 has written no dispatch file.
StaticConflictFatal ==
    /\ [][StaticConflict => (pc' = "exit1" /\ output_file' = <<>>)]_vars
    /\ [](pc = "exit1" => output_file = <<>>)

\* A run that recorded one static feature and exited on the conflict of the
\* next one.
StaticConflictFatalWitness ==
    /\ pc = "exit1"
    /\ Allocated
    /\ static_pos >= 1
    /\ static_pos < Len(static_features)
    /\ dispatch_entries # <<>>
    /\ output_file = <<>>

\* C12: no partial output.  The dispatch file is written at most once; the
\* write is the step that ends the run, taken when the static and the
\* dynamic phase are through, and what it writes is the whole plan in its
\* final order; a run that ended on a fatal path (source error, no feature
\* or group left, no node, static conflict, a failing sort) has written
\* nothing.
NoPartialOutput ==
    /\ [](Len(output_file) <= 1)
    /\ [](pc \in {"exit1", "error"} => output_file = <<>>)
    /\ [](output_file # <<>> => (pc = "done" /\ output_file[1] = dispatch_entries))
    /\ [][output_file' # output_file =>
              /\ pc = "dynamic" /\ pc' = "done"
              /\ static_pos = Len(static_features)
              /\ dynamic_pos = Len(dynamic_features)
              /\ output_file' = <<SortedDispatch(dispatch_entries)>>]_vars

\* A run from the start of main whose filters dropped a feature and that
\* wrote the plan of the feature left, two records of it.
NoPartialOutputWitness ==
    /\ pc = "done"
    /\ Len(output_file) = 1
    /\ feature_source.kind = "entries"
    /\ Len(feature_entries) < Len(feature_source.entries)
    /\ Len(output_file[1]) >= 2

(***************************************************************************)
(* Node pool resolution and the final order.                               *)
(***************************************************************************)
\* C14: node pool resolution.  get_final_node_pool asks the live inventory
\* exactly when --use-jenkins-nodes is given.  Without a defined pool and
\* without the live inventory the run exits with code 1; without a defined
\* pool the base pool is the live idle set; with a defined pool and no live
\* inventory it is the defined set; with both it is their intersection; an
\* empty base pool ends the run with code 1.
NodePoolResolution ==
    [][pc = "resolve_nodes" =>
          /\ jenkins_queried' = use_jenkins_nodes
          /\ (nodes_spec = {} /\ ~use_jenkins_nodes) => pc' = "exit1"
          /\ (nodes_spec = {} /\ use_jenkins_nodes) =>
                 Range(base_pool') = Range(jenkins_idle_pool')
          /\ (nodes_spec # {} /\ ~use_jenkins_nodes) =>
                 Range(base_pool') = nodes_spec
          /\ (nodes_spec # {} /\ use_jenkins_nodes) =>
                 Range(base_pool') = nodes_spec \cap Range(jenkins_idle_pool')
          /\ base_pool' = <<>> => pc' = "exit1"
          /\ ~use_jenkins_nodes => jenkins_idle_pool' = <<>>]_vars

\* A run that asked the live inventory and went on with an intersection
\* smaller than both the defined pool and the idle set.
NodePoolResolutionWitness ==
    /\ pc = "allocate"
    /\ jenkins_queried
    /\ base_pool # <<>>
    /\ Range(base_pool) # nodes_spec
    /\ Range(base_pool) # Range(jenkins_idle_pool)

\* The order the final sort is to give: numbered nodes by number, then the
\* other names in lexicographic order.
NodeOrderLeq(a, b) ==
    IF IsNumericNode(a)
    THEN ~IsNumericNode(b) \/ NodeNumber(a) <= NodeNumber(b)
    ELSE ~IsNumericNode(b) /\ StringRank(a) <= StringRank(b)

WrittenSorted ==
    \A k \in 1..Len(output_file) :
        \A a, b \in 1..Len(output_file[k]) :
            a < b => NodeOrderLeq(output_file[k][a].NODE_NAME,
                                  output_file[k][b].NODE_NAME)

\* C15: final ordering.  The sort of the finished plan completes whatever
\* node names the pool holds, and the sequence written is in ascending order
\* of the node number, the names without a number after all numbered ones,
\* in lexicographic order.
FinalOrdering ==
    /\ (pc = "error" => ~Allocated)
    /\ WrittenSorted

\* A plan with records on a numbered node and on a node without a number:
\* the sort of such a plan raises, and the run ends without a file.
FinalOrderingMixedPlan ==
    /\ pc = "error"
    /\ Allocated
    /\ MixedKeys(dispatch_entries)
    /\ output_file = <<>>

\* C13: determinism.  A second run on the same catalog, duration data, node
\* specification, exclusions, filters and live answer writes the same
\* dispatch sequence as the first, also when the pool holds names that are
\* not of the form node<digits>.
Determinism == pc = "done" => twin_entries = output_file[1]

\* The same for the pools with at most one name that has no number.
DeterminismOneUnnumbered ==
    (/\ pc = "done"
     /\ Cardinality({n \in Range(available_nodes) : ~IsNumericNode(n)}) <= 1) =>
        twin_entries = output_file[1]

\* Two runs that wrote different plans.
DeterminismTwoPlans ==
    /\ pc = "done"
    /\ twin_entries # output_file[1]
    /\ Range(twin_nodes) = Range(available_nodes)

(***************************************************************************)
(* The feature and group filters.                                          *)
(***************************************************************************)
\* A feature name matches at least one inclusion pattern (every name does
\* when no pattern is given); it matches some exclusion pattern.
MatchesInclusion(name) ==
    \/ PatternList(features_arg) = <<>>
    \/ MatchesAny(name, PatternList(features_arg))

MatchesExclusion(name) == MatchesAny(name, PatternList(exclude_arg))

IncludedEntries(entries) ==
    SelectSeq(entries, LAMBDA e : MatchesInclusion(e.FEATURE_NAME))

SurvivingEntries(entries) ==
    SelectSeq(entries, LAMBDA e : /\ MatchesInclusion(e.FEATURE_NAME)
                                 /\ ~MatchesExclusion(e.FEATURE_NAME))

\* C16: feature filter order.  The feature filters leave, in catalog order,
\* the entries whose name matches at least one inclusion pattern (all of
\* them when none is given) and no exclusion pattern, so that a feature
\* matching both is dropped; when inclusion leaves no entry the run exits
\* with code 1.
FeatureFilterOrder ==
    [][pc = "filter_features" =>
          IF IncludedEntries(feature_entries) = <<>>
          THEN pc' = "exit1"
          ELSE /\ pc' = "filter_groups"
               /\ feature_entries' = SurvivingEntries(feature_entries)]_vars

\* The same for the catalogs all of whose entries have a name.
FeatureFilterOrderNamed ==
    [][(/\ pc = "filter_features"
        /\ \A i \in 1..Len(feature_entries) : feature_entries[i].FEATURE_NAME # "") =>
          IF IncludedEntries(feature_entries) = <<>>
          THEN pc' = "exit1"
          ELSE /\ pc' = "filter_groups"
               /\ feature_entries' = SurvivingEntries(feature_entries)]_vars

\* An entry without a name is left by an exclusion pattern that matches the
\* empty name.
FeatureFilterUnnamedKept ==
    /\ pc = "filter_groups"
    /\ \E i \in 1..Len(feature_entries) :
           /\ feature_entries[i].FEATURE_NAME = ""
           /\ MatchesExclusion("")

\* A group passes the two filters: it ends with ".<choice>" when a choice
\* other than all is made, and no --group-filter pattern matches it.
GroupPasses(group) ==
    /\ group_choice # "all" =>
           EndsWith(Chars[group], <<".">> \o Chars[group_choice])
    /\ ArgGiven(group_filter) =>
           ~MatchesAny(group, PatternList(group_filter))

PassingGroups(entry) == SelectSeq(OriginalGroups(entry), GroupPasses)

\* The entries left with a group, each with its passing groups.
EntriesLeftWithGroups(entries) ==
    LET kept == SelectSeq(entries, LAMBDA e : PassingGroups(e) # <<>>)
    IN  [k \in 1..Len(kept) |->
            [kept[k] EXCEPT !["test_groups"] = PassingGroups(kept[k])]]

GroupsFiltered == pc \notin {"load", "filter_features", "filter_groups"}

\* C17: group filtering.  Every group of every dispatch record ends with
\* ".<choice>" when the choice is crit, full or tmp, and matches no
\* --group-filter pattern.  The filtering step keeps of each entry the groups
\* that pass the suffix filter and then the pattern exclude, drops the entry
\* left without a group and ends the run with exit code 1 when no entry is
\* left; from then on the entries are fixed, node allocation is over them
\* alone and every record is made of groups of one of them.
GroupFiltering ==
    /\ [](\A records \in Plans : \A k \in 1..Len(records) :
              \A group \in Range(records[k].TEST_GROUPS) : GroupPasses(group))
    /\ [][pc = "filter_groups" =>
              /\ feature_entries' = EntriesLeftWithGroups(feature_entries)
              /\ pc' = IF feature_entries' = <<>> THEN "exit1" ELSE "resolve_nodes"]_vars
    /\ [][GroupsFiltered => feature_entries' = feature_entries]_vars
    /\ [](GroupsFiltered =>
              /\ \A i \in 1..Len(feature_entries) :
                     OriginalGroups(feature_entries[i]) # <<>>
              /\ Allocated => Len(node_allocations) = Len(feature_entries)
              /\ \A records \in Plans : \A k \in 1..Len(records) :
                     \E i \in 1..Len(feature_entries) :
                        /\ records[k].FEATURE_NAME = feature_entries[i].FEATURE_NAME
                        /\ Range(records[k].TEST_GROUPS)
                               \subseteq Range(OriginalGroups(feature_entries[i])))

\* A plan is written by a run whose suffix filter and pattern exclude each
\* removed a group and left one feature of the catalog without a group.
GroupFilteringWitness ==
    /\ pc = "done"
    /\ group_choice # "all"
    /\ ArgGiven(group_filter)
    /\ Len(feature_entries) < Len(feature_source.entries)
    /\ \E i \in 1..Len(feature_source.entries) :
           LET groups == OriginalGroups(feature_source.entries[i])
               by_choice == filter_test_groups_by_choice(groups, group_choice)
           IN  /\ by_choice # <<>>
               /\ Len(by_choice) < Len(groups)
               /\ \E group \in Range(by_choice) :
                      MatchesAny(group, PatternList(group_filter))
    /\ output_file # <<>> /\ output_file[1] # <<>>

\* The occurrences of a feature in the input of the first call.
OccurrencesOf(name) ==
    SelectSeq(merge.input, LAMBDA raw : ResolvedName(raw) = name)

\* A list field over all the occurrences of a feature, in encounter order.
FieldOverOccurrences(name, f) ==
    FlattenSeq([k \in 1..Len(OccurrencesOf(name)) |->
                   IF f \in DOMAIN OccurrencesOf(name)[k]
                   THEN OccurrencesOf(name)[k][f] ELSE <<>>])

MergedField(name, f) ==
    IF f \in DOMAIN merge.merged[name] THEN merge.merged[name][f] ELSE <<>>

FirstCallReturned == pc = "merge" /\ merge.phase = "returned" /\ merge.pass = 1

\* C18: merged list fields.  After merge_features, for every feature name,
\* occurring once or several times, each list field has no duplicate
\* element and is the concatenation of the field over the occurrences, in
\* encounter order, with the later duplicates removed.
MergedListFields ==
    FirstCallReturned =>
        \A name \in DOMAIN merge.merged : \A f \in Range(list_fields) :
            /\ NoDuplicates(MergedField(name, f))
            /\ MergedField(name, f) = Deduped(FieldOverOccurrences(name, f))

\* C18, as far as it holds: a list field that a second or later occurrence
\* of the feature carries is free of duplicates and is the concatenation
\* with the later duplicates removed; any other field is the list of the
\* first occurrence as it stands.
MergedListsOfSeveral ==
    FirstCallReturned =>
        \A name \in DOMAIN merge.merged : \A f \in Range(list_fields) :
            IF \E k \in 2..Len(OccurrencesOf(name)) : f \in DOMAIN OccurrencesOf(name)[k]
            THEN /\ NoDuplicates(MergedField(name, f))
                 /\ MergedField(name, f) = Deduped(FieldOverOccurrences(name, f))
            ELSE MergedField(name, f) = FieldOverOccurrences(name, f)

\* A feature that occurs once comes out of the merge with a test group
\* listed twice.
MergedListKeepsDuplicate ==
    /\ FirstCallReturned
    /\ \E name \in DOMAIN merge.merged :
           /\ Len(OccurrencesOf(name)) = 1
           /\ ~NoDuplicates(MergedField(name, "test_groups"))

\* C19: merge idempotence.  The merged catalog, each merged record together
\* with its FEATURE_NAME, given to merge_features again comes back as the
\* same merged catalog, with the names in the same order.
MergeIdempotent ==
    (pc = "merge" /\ merge.phase = "returned" /\ merge.pass = 2) =>
        /\ merge.merged = merge.first
        /\ merge.order = merge.first_order
        /\ merge.entries = CatalogOf(merge.first, merge.first_order)
        /\ merge.first = merge_features(merge.input)

\* The second call has returned on the merge of a catalog in which a
\* feature occurs more than once, with an email and a scalar field, next to
\* another feature.
MergeIdempotentWitness ==
    /\ pc = "merge" /\ merge.phase = "returned" /\ merge.pass = 2
    /\ Cardinality(DOMAIN merge.merged) >= 2
    /\ \E name \in DOMAIN merge.merged :
           /\ Len(OccurrencesOf(name)) >= 2
           /\ "email" \in DOMAIN merge.merged[name]
           /\ merge.merged[name]["ORIOLE_SUBMIT_FLAG"] # "all"

\* The addresses that the occurrences of a feature in the catalog carry.
FeatureAddresses(name) ==
    UNION {AddressesOf(feature_source.entries[i]["email"]) :
              i \in {j \in 1..Len(feature_source.entries) :
                        /\ ResolvedName(feature_source.entries[j]) = name
                        /\ "email" \in DOMAIN feature_source.entries[j]}}

\* The occurrences of a name in the catalog the source gave.
OccurrencesIn(name) ==
    SelectSeq(feature_source.entries, LAMBDA raw : ResolvedName(raw) = name)

CatalogLoaded == feature_source.kind = "entries" /\ pc # "load"

CatalogNames ==
    {ResolvedName(feature_source.entries[i]) : i \in 1..Len(feature_source.entries)}
        \ {""}

MergedEmailHasAdmins(name) ==
    /\ "email" \in DOMAIN merged_features[name]
    /\ ADMIN_EMAILS \subseteq AddressesOf(merged_features[name]["email"])

\* C20: email contract.  Whenever an occurrence of a feature carries an
\* email address, the merged email string contains every administrator
\* address, and the SEND_TO of every dispatch record of the feature contains
\* every administrator address and is the sorted, comma-joined,
\* duplicate-free union of the feature's addresses and the administrators.
EmailContract ==
    CatalogLoaded =>
        \A name \in CatalogNames :
            FeatureAddresses(name) # {} =>
                /\ MergedEmailHasAdmins(name)
                /\ \A records \in Plans : \A k \in 1..Len(records) :
                       records[k].FEATURE_NAME = name =>
                           /\ ADMIN_EMAILS \subseteq Range(records[k].SEND_TO)
                           /\ records[k].SEND_TO =
                                  JoinSorted(FeatureAddresses(name) \cup ADMIN_EMAILS)

\* C20, as far as it holds: the merged email string has the administrators
\* and all the addresses of the feature; every record has the
\* administrators in SEND_TO, sorted and without duplicates; the SEND_TO of
\* a feature listed once in the catalog is the union the claim states.
EmailContractListedOnce ==
    CatalogLoaded =>
        /\ \A name \in CatalogNames :
               FeatureAddresses(name) # {} =>
                   /\ MergedEmailHasAdmins(name)
                   /\ merged_features[name]["email"] =
                          EmailList(<<JoinSorted(FeatureAddresses(name)
                                                 \cup ADMIN_EMAILS)>>)
        /\ \A records \in Plans : \A k \in 1..Len(records) :
               LET name == records[k].FEATURE_NAME
                   SEND_TO == records[k].SEND_TO
               IN  /\ ADMIN_EMAILS \subseteq Range(SEND_TO)
                   /\ SEND_TO = JoinSorted(Range(SEND_TO))
                   /\ Len(OccurrencesIn(name)) = 1 =>
                          SEND_TO = JoinSorted(FeatureAddresses(name) \cup ADMIN_EMAILS)

\* A written plan has two records of one feature, which carries an
\* address, with different SEND_TO.
EmailContractTwoSendTo ==
    /\ pc = "done"
    /\ \E j, k \in 1..Len(output_file[1]) :
           /\ output_file[1][j].FEATURE_NAME = output_file[1][k].FEATURE_NAME
           /\ FeatureAddresses(output_file[1][j].FEATURE_NAME) # {}
           /\ output_file[1][j].SEND_TO # output_file[1][k].SEND_TO

\* An occurrence specifies a scalar flag: the key, in upper case or in
\* snake_case, is present and not null.
Specifies(raw, sf) == Has(raw, sf) \/ Has(raw, key_map[sf])

SpecifiedValue(raw, sf) == IF Has(raw, sf) THEN raw[sf] ELSE raw[key_map[sf]]

\* The occurrences of a feature that specify the flag, in encounter order.
Specifying(name, sf) ==
    SelectSeq(OccurrencesOf(name), LAMBDA raw : Specifies(raw, sf))

LatestWins(name, sf) ==
    IF Specifying(name, sf) # <<>>
    THEN /\ sf \in DOMAIN merge.merged[name]
         /\ merge.merged[name][sf] =
                SpecifiedValue(Specifying(name, sf)[Len(Specifying(name, sf))], sf)
    ELSE IF sf = "ORIOLE_SUBMIT_FLAG"
    THEN /\ sf \in DOMAIN merge.merged[name]
         /\ merge.merged[name][sf] = "all"
    ELSE sf \notin DOMAIN merge.merged[name]

\* C21: scalar flags are latest-wins.  For PROVISION_VMPC, PROVISION_DOCKER,
\* VMPC_NAMES and ORIOLE_SUBMIT_FLAG the merged value of a feature is the
\* value of the last occurrence that specifies the flag; ORIOLE_SUBMIT_FLAG
\* is "all" only when no occurrence specifies it.
ScalarLatestWins ==
    FirstCallReturned =>
        \A name \in DOMAIN merge.merged : \A sf \in Range(scalar_fields_upper) :
            /\ LatestWins(name, sf)
            /\ (sf = "ORIOLE_SUBMIT_FLAG" /\ merge.merged[name][sf] = "all") =>
                   \/ Specifying(name, sf) = <<>>
                   \/ SpecifiedValue(Specifying(name, sf)[Len(Specifying(name, sf))],
                                     sf) = "all"

\* C21, as far as it holds: the three provisioning flags are latest-wins;
\* ORIOLE_SUBMIT_FLAG is the value of the last occurrence of the feature,
\* which is "all" when that occurrence does not specify it.
ScalarLatestWinsButSubmitFlag ==
    FirstCallReturned =>
        \A name \in DOMAIN merge.merged : \A sf \in Range(scalar_fields_upper) :
            IF sf # "ORIOLE_SUBMIT_FLAG" THEN LatestWins(name, sf)
            ELSE LET last == OccurrencesOf(name)[Len(OccurrencesOf(name))]
                 IN  merge.merged[name][sf] =
                        IF Specifies(last, sf) THEN SpecifiedValue(last, sf) ELSE "all"

\* A feature comes out of the merge with ORIOLE_SUBMIT_FLAG "all" although
\* an occurrence specifies another value and none after it specifies the
\* flag.
SubmitFlagReset ==
    /\ FirstCallReturned
    /\ \E name \in DOMAIN merge.merged :
           /\ Specifying(name, "ORIOLE_SUBMIT_FLAG") # <<>>
           /\ merge.merged[name]["ORIOLE_SUBMIT_FLAG"] = "all"
           /\ \A k \in 1..Len(Specifying(name, "ORIOLE_SUBMIT_FLAG")) :
                  SpecifiedValue(Specifying(name, "ORIOLE_SUBMIT_FLAG")[k],
                                 "ORIOLE_SUBMIT_FLAG") # "all"

\* normalize: the text with its zero parts dropped.
NormalizedText(text) ==
    DurationText(IF text.hr = 0 THEN Missing ELSE text.hr,
                 IF text.min = 0 THEN Missing ELSE text.min,
                 IF text.sec = 0 THEN Missing ELSE text.sec)

Formatted == unit.fn = "duration" /\ unit.phase = "formatted"

\* C22: duration round trip.  For every text "<H> hr <M> min <S> sec", each
\* part optional, formatting the parsed seconds gives the text with its
\* zero parts dropped.
DurationRoundTrip == Formatted => unit.formatted = NormalizedText(unit.text)

\* The text is in canonical form: minutes and seconds below 60.
CanonicalText(text) == text.min < SecondsPerMinute /\ text.sec < SecondsPerMinute

\* C22, amended: the round trip gives the text with its zero parts dropped
\* when minutes and seconds are below 60 and some part is not zero; a text
\* without a part other than zero gives "0 sec"; any other text gives the
\* canonical text of the same number of seconds, the excess of minutes and
\* seconds carried upward.
DurationRoundTripCanonical ==
    Formatted =>
        IF NormalizedText(unit.text) = DurationText(Missing, Missing, Missing)
        THEN unit.formatted = ZeroSecText
        ELSE IF CanonicalText(unit.text)
        THEN unit.formatted = NormalizedText(unit.text)
        ELSE /\ unit.formatted # NormalizedText(unit.text)
             /\ CanonicalText(unit.formatted)
             /\ NormalizedText(unit.formatted) = unit.formatted
             /\ parse_duration_to_seconds(unit.formatted) =
                    parse_duration_to_seconds(unit.text)

\* A canonical text with a zero part between two parts that are not zero
\* has made the round trip.
DurationRoundTripWitness ==
    /\ Formatted
    /\ unit.text.hr > 0 /\ unit.text.min = 0 /\ unit.text.sec > 0
    /\ unit.text.sec < SecondsPerMinute

(***************************************************************************)
(* Properties of the catalog and duration sources (SpecSources).           *)
(***************************************************************************)
CatalogDone ==
    /\ unit.fn = "get_feature_entries"
    /\ unit.phase \in {"returned", "raised", "exit1"}

\* The name of a record of a source: the key of the form {name: config},
\* else the first non-empty of FEATURE_NAME, feature_name, feature, name.
RecordName(item) ==
    IF ~IsDict(item) THEN ""
    ELSE IF Cardinality(DOMAIN item) = 1 /\ DOMAIN item \cap FieldKeys = {}
         THEN CHOOSE k \in DOMAIN item : TRUE
    ELSE PromotedName(item)

NamesOfRecords(items) ==
    LET named == SelectSeq(items, LAMBDA item : RecordName(item) # "")
    IN  [k \in 1..Len(named) |-> RecordName(named[k])]

\* The source read last was a list of records, and these are its records.
ListRead(source) ==
    /\ CatalogDone
    /\ unit.asked # <<>>
    /\ unit.asked[Len(unit.asked)] = source
    /\ LET given == IF source = "api" THEN unit.api ELSE unit.file
       IN  given.kind \in {"list", "paged"} /\ given.items # <<>>

RecordsRead(source) == IF source = "api" THEN unit.api.items ELSE unit.file.items

RecordsRecoveredFrom(source) ==
    ListRead(source) =>
        /\ unit.phase = "returned"
        /\ unit.result.kind = "entries"
        /\ [k \in 1..Len(unit.result.entries) |->
               unit.result.entries[k].FEATURE_NAME]
             = NamesOfRecords(RecordsRead(source))

\* C23: the records of a list that have a non-empty resolved name are all
\* loaded, under that name and in their order, and the records without one
\* are skipped, whether the list came from the HTTP endpoint or from the
\* JSON file; the load of a list never ends in an exception.
RecordsRecovered == RecordsRecoveredFrom("api") /\ RecordsRecoveredFrom("file")

\* The part of C23 that holds: the records of the HTTP endpoint.
ApiRecordsRecovered == RecordsRecoveredFrom("api")

\* A file whose first record is well formed and whose second has its name
\* under feature_name was read, and the load ended in an exception.
FileRecordAborts ==
    /\ ListRead("file")
    /\ Len(unit.file.items) = 2
    /\ RecordName(unit.file.items[1]) = "dlp"
    /\ RecordName(unit.file.items[2]) = "ips"
    /\ unit.phase = "raised"

SourceDone == unit.fn \in {"get_feature_entries", "get_duration_entries"}
              /\ unit.phase \in {"returned", "raised", "exit1"}

Primary == IF unit.fn = "get_feature_entries" THEN "api" ELSE "mongo"

PrimaryEnabled ==
    IF unit.fn = "get_feature_entries" THEN unit.use_api
    ELSE unit.store.kind # "no_client"

\* The primary source answers with data.
PrimarySucceeds ==
    IF unit.fn = "get_feature_entries"
    THEN fetch_from_api(unit.api).kind = "entries"
    ELSE unit.store.kind = "data" /\ unit.store.entries # <<>>

PrimaryData ==
    IF unit.fn = "get_feature_entries" THEN fetch_from_api(unit.api)
    ELSE unit.store.entries

FallbackConfigured == unit.file.kind # "unset"

Fatal == unit.phase \in {"raised", "exit1"}

FallbackProtocol ==
    (SourceDone /\ PrimaryEnabled) =>
        /\ unit.asked[1] = Primary
        /\ PrimarySucceeds =>
              /\ unit.asked = <<Primary>>
              /\ ~Fatal
              /\ unit.result = PrimaryData
        /\ (~PrimarySucceeds /\ FallbackConfigured) =>
              unit.asked = <<Primary, "file">>
        /\ (~PrimarySucceeds /\ ~FallbackConfigured) =>
              /\ unit.asked = <<Primary>>
              /\ Fatal

\* C24: a source that is enabled is asked first; when it answers with data
\* the file is not read and the data is returned; when it fails and a file
\* is configured the file is read next; when it fails and no file is
\* configured the call ends in an exception.  For the catalog and for the
\* durations.
SourceFallback == FallbackProtocol

\* The part of C24 that holds: the protocol of get_feature_entries.
CatalogFallback == unit.fn = "get_feature_entries" => FallbackProtocol

\* The document store gave durations, and the duration file was read.
DurationFileReadAfterStore ==
    /\ unit.fn = "get_duration_entries" /\ unit.phase = "returned"
    /\ PrimarySucceeds
    /\ unit.asked = <<"mongo", "file">>
    /\ unit.source = "file"

(***************************************************************************)
(* Properties of the live inventory (SpecIdle).                            *)
(***************************************************************************)
IdleListed == unit.fn = "get_idle_jenkins_nodes" /\ unit.phase = "returned"

RunsJobOf(computer, prefixes) ==
    \E k \in 1..Len(computer.executors) :
        /\ computer.executors[k].kind = "job"
        /\ \E prefix \in prefixes :
               IsPrefix(Chars[prefix], Chars[computer.executors[k].fullDisplayName])

\* The names of the computers that are named, not master, online and
\* without an executor that runs a job of one of the prefixes.
IdleNamesFor(prefixes) ==
    {unit.computers[k].displayName : k \in
        {j \in 1..Len(unit.computers) :
            /\ unit.computers[j].displayName \notin {"", "master"}
            /\ ~unit.computers[j].offline
            /\ ~RunsJobOf(unit.computers[j], prefixes)}}

\* C25: the idle set holds exactly the nodes that are named, not master,
\* online and without an executor running a job whose full name starts with
\* fortistack_runtest, fortistack_provision_fgts, fortistackRunTests or
\* fortistackProvisionTestEnv.
IdleInventory ==
    IdleListed =>
        Range(unit.result) =
            IdleNamesFor({"fortistack_runtest", "fortistack_provision_fgts",
                          "fortistackRunTests", "fortistackProvisionTestEnv"})

\* The part of C25 that holds: the same set for the three prefixes
\* fortistackRunTests, fortistackProvisionTestEnv, fortistack_provision_fgts.
IdleInventoryOfThree ==
    IdleListed =>
        Range(unit.result) =
            IdleNamesFor({"fortistack_provision_fgts", "fortistackRunTests",
                          "fortistackProvisionTestEnv"})

\* A node that runs a job named fortistack_runtest is in the idle set.
IdleWhileRunningTests ==
    /\ IdleListed
    /\ \E k \in 1..Len(unit.computers) :
           /\ unit.computers[k].executors = <<RunningExecutor("fortistack_runtest #7")>>
           /\ unit.computers[k].displayName \in Range(unit.result)

(***************************************************************************)
(* Properties of the packer (SpecPack).                                    *)
(***************************************************************************)
Packed == unit.fn = "distribute_groups_across_nodes" /\ unit.phase = "returned"

\* The position of a group name in the order of the strings.
GroupRank(group) == CHOOSE i \in 1..Len(GroupUniverse) : GroupUniverse[i] = group

\* The items by seconds descending, equal seconds by name ascending.
LptOrder(group_duration_map) ==
    LET order == StableSortByKey(Indices(group_duration_map),
                     [i \in 1..Len(group_duration_map) |->
                         (0 - group_duration_map[i].seconds) * (Len(GroupUniverse) + 1)
                           + GroupRank(group_duration_map[i].group)])
    IN  [k \in 1..Len(order) |-> group_duration_map[order[k]]]

\* The item that goes to the bin with the smallest total, the first of them.
RECURSIVE LptPack(_, _)
LptPack(items, bins) ==
    IF items = <<>> THEN bins
    ELSE LET least == CHOOSE i \in 1..Len(bins) :
                        \A j \in 1..Len(bins) :
                            \/ bins[i].total_duration < bins[j].total_duration
                            \/ bins[i].total_duration = bins[j].total_duration /\ i <= j
         IN  LptPack(Tail(items),
                 [bins EXCEPT ![least] =
                     [groups |-> bins[least].groups \o <<Head(items).group>>,
                      total_duration |-> bins[least].total_duration + Head(items).seconds]])

SecondsOfGroup(group_duration_map, group) ==
    LET i == CHOOSE i \in 1..Len(group_duration_map) : group_duration_map[i].group = group
    IN  group_duration_map[i].seconds

BinsWellFormed ==
    LET map == unit.group_duration_map
    IN  IF map = <<>> \/ unit.bin_count <= 0 THEN unit.bins = <<>>
        ELSE /\ Len(unit.bins) = unit.bin_count
             /\ \A b \in 1..Len(unit.bins) :
                    unit.bins[b].total_duration =
                        SumSeq([k \in 1..Len(unit.bins[b].groups) |->
                                   SecondsOfGroup(map, unit.bins[b].groups[k])])
             /\ SameMultiset(FlattenSeq([b \in 1..Len(unit.bins) |-> unit.bins[b].groups]),
                             [i \in 1..Len(map) |-> map[i].group])

\* C26: the groups are packed in the order of their seconds descending, equal
\* seconds by group name ascending, each into the bin with the smallest
\* total, the lowest index among equals; the result has bin_count bins whose
\* totals are the sums of their groups, and is empty for an empty map or a
\* bin_count of zero or less.
LptPacking ==
    Packed =>
        /\ BinsWellFormed
        /\ (unit.group_duration_map # <<>> /\ unit.bin_count > 0) =>
              unit.bins = LptPack(LptOrder(unit.group_duration_map),
                                  [b \in 1..unit.bin_count |->
                                      [groups |-> <<>>, total_duration |-> 0]])

DistinctSeconds ==
    \A i, j \in 1..Len(unit.group_duration_map) :
        unit.group_duration_map[i].seconds = unit.group_duration_map[j].seconds => i = j

\* The part of C26 that holds: the bins are well formed for every map, and
\* they are the bins of C26 when no two groups have the same seconds.
LptPackingDistinctSeconds ==
    Packed => /\ BinsWellFormed
              /\ DistinctSeconds => LptPacking

\* Two groups of equal seconds, g2 inserted before g1, were packed into two
\* bins: g2 is in the first bin.
PackedInInsertionOrder ==
    /\ Packed
    /\ unit.bin_count = 2
    /\ unit.group_duration_map = <<[group |-> "g2", seconds |-> DefaultGroupSeconds],
                                   [group |-> "g1", seconds |-> DefaultGroupSeconds]>>
    /\ unit.bins[1].groups = <<"g2">>
    /\ unit.bins[2].groups = <<"g1">>

(***************************************************************************)
(* Properties of the loops of the allocator (SpecOver, SpecAlloc).         *)
(***************************************************************************)
\* One decrement of a round-robin over the rotation: the index at pos gives
\* a node back; when its count reaches 1 it leaves the rotation and the
\* index after it takes its place, otherwise pos moves on by one.
RoundRobinStep(rr) ==
    LET feature_index == rr.rotation[rr.pos]
        counts == [rr.node_counts EXCEPT ![feature_index] = @ - 1]
        leaves == counts[feature_index] = 1
        rotation == IF leaves
                    THEN SelectSeq(rr.rotation, LAMBDA c : c # feature_index)
                    ELSE rr.rotation
        pos == IF leaves THEN rr.pos ELSE rr.pos + 1
    IN  [node_counts |-> counts,
         rotation |-> rotation,
         pos |-> IF pos > Len(rotation) THEN 1 ELSE pos]

RECURSIVE RoundRobin(_, _)
RoundRobin(rr, n) ==
    IF n = 0 \/ rr.rotation = <<>> THEN rr
    ELSE RoundRobin(RoundRobinStep(rr), n - 1)

\* The counts after n decrements of the round-robin, from the counts and
\* the candidates the loop starts with.
RoundRobinCounts(durations, node_count, n) ==
    LET start == AdjustStart(durations, node_count)
    IN  RoundRobin([node_counts |-> start.node_counts,
                    rotation |-> start.candidates,
                    pos |-> 1], n).node_counts

TakingBack == pc = "allocator" /\ alloc.phase = "over"

\* C27: after every pass of the loop that takes nodes back, the counts are
\* those of a round-robin over the indices with more than one node, in
\* ascending order of their raw allocation and of their index among equals,
\* in which an index that reaches one node leaves the rotation and the index
\* after it is the next to give a node back.
OverRoundRobin ==
    TakingBack =>
        alloc.st.node_counts =
            RoundRobinCounts(alloc.call.durations, alloc.call.node_count,
                             alloc.st.index)

\* The part of C27 that holds: the round-robin as long as no index has left
\* a rotation of three or more.
OverRoundRobinFullRotation ==
    LET start == AdjustStart(alloc.call.durations, alloc.call.node_count)
    IN  (TakingBack /\ \/ Len(start.candidates) <= 2
                       \/ alloc.st.candidates = start.candidates)
            => OverRoundRobin

\* Three features of two nodes each and two of none in six nodes: the first
\* and the third have given a node back, the second has not.
OverSkipsNext ==
    /\ TakingBack
    /\ alloc.call.durations = <<1, 1, 1, 0, 0>>
    /\ alloc.call.node_count = 6
    /\ alloc.st.index = 2
    /\ alloc.st.node_counts = <<1, 2, 1, 1, 1>>

\* The call has at most as many features as nodes, and a positive total.
Allocatable ==
    /\ pc = "allocator"
    /\ Len(alloc.call.durations) <= alloc.call.node_count
    /\ SumSeq(alloc.call.durations) > 0

\* What the cap takes from the counts: the nodes above the group count of a
\* feature that has groups.
CappedSurplus(node_counts, group_counts) ==
    SumSeq([i \in 1..Len(node_counts) |->
               IF group_counts[i] > 0 /\ node_counts[i] > group_counts[i]
               THEN node_counts[i] - group_counts[i] ELSE 0])

\* The step from the end of the loops to the return.
CapStep == alloc.phase \in {"over", "under"} /\ alloc'.phase = "return"

\* C28: for a call with at most as many features as nodes and a positive
\* total, the loops come to an end and the function returns; the counts sum
\* to node_count when the loops are left; the cap takes the surplus over
\* the group count from a feature and gives it to no other, so that the
\* returned counts sum to node_count minus the capped surplus.
AllocatorExact ==
    /\ [][(Allocatable /\ CapStep) =>
            /\ SumSeq(alloc.st.node_counts) = alloc.call.node_count
            /\ \A i \in 1..Len(alloc.st.node_counts) :
                   alloc'.st.node_counts[i] =
                       IF /\ alloc.call.group_counts[i] > 0
                          /\ alloc.st.node_counts[i] > alloc.call.group_counts[i]
                       THEN alloc.call.group_counts[i]
                       ELSE alloc.st.node_counts[i]
            /\ SumSeq(alloc'.st.node_counts) =
                   alloc.call.node_count
                     - CappedSurplus(alloc.st.node_counts, alloc.call.group_counts)]_vars
    /\ Allocatable => <>(alloc.phase = "return")

\* A call that took nodes back, then lost a surplus to the cap, has
\* returned fewer nodes than node_count.
AllocatorExactWitness ==
    /\ Allocatable
    /\ alloc.phase = "return"
    /\ IsOver(alloc.call.durations, alloc.call.node_count)
    /\ SumSeq(alloc.st.node_counts) < alloc.call.node_count

(***************************************************************************)
(* Properties of the durations of the plan (Spec).                         *)
(***************************************************************************)
\* The seconds of the SUM_DURATION values of the written records of a
\* feature, added up.
WrittenSeconds(name) ==
    LET own == RecordsOf(output_file[1], name)
    IN  SumSeq([k \in 1..Len(own) |-> parse_duration_to_seconds(own[k].SUM_DURATION)])

\* Every bin packed for the catalog entry at position i got its record.
AllBinsWritten(i) ==
    LET name == feature_entries[i].FEATURE_NAME
    IN  /\ pc = "done"
        /\ NameOnce(i)
        /\ IF IsStatic(name) THEN ValidStaticNodes(name) # <<>>
           ELSE name \notin Range(skipped_features)

\* C29: the total of a feature that went to the allocator is the sum of the
\* totals of the bins packed for it, so that the SUM_DURATION values of its
\* records add up to that total when every bin got its record, whatever the
\* duration data.
DurationConsistency ==
    \A i \in 1..Len(feature_entries) :
        AllBinsWritten(i) =>
            WrittenSeconds(feature_entries[i].FEATURE_NAME) = feature_durations[i]

ListedOnceAt(i) ==
    /\ Cardinality(EntriesNamed(feature_entries[i].FEATURE_NAME)) <= 1
    /\ NoDuplicates(feature_entries[i].test_groups)

\* The part of C29 that holds: the feature is listed at most once in the
\* duration data and its group list names no group twice.
DurationConsistencyListedOnce ==
    \A i \in 1..Len(feature_entries) :
        (AllBinsWritten(i) /\ ListedOnceAt(i)) =>
            WrittenSeconds(feature_entries[i].FEATURE_NAME) = feature_durations[i]

\* A feature listed twice in the duration data has all its records written,
\* and their seconds do not add up to the total the allocator got.
TwiceListedTotalsDiffer ==
    \E i \in 1..Len(feature_entries) :
        /\ AllBinsWritten(i)
        /\ Cardinality(EntriesNamed(feature_entries[i].FEATURE_NAME)) = 2
        /\ NoDuplicates(feature_entries[i].test_groups)
        /\ feature_durations[i] = 9000
        /\ WrittenSeconds(feature_entries[i].FEATURE_NAME) = 1800

(***************************************************************************)
(* Properties of a bound feature without an available node (Spec).         *)
(***************************************************************************)
\* The feature is a key of FEATURE_NODE_STATIC_BINDING and none of its bound
\* nodes is in the available pool.
BoundUnavailable(name) ==
    /\ name \in DOMAIN FEATURE_NODE_STATIC_BINDING
    /\ Range(FEATURE_NODE_STATIC_BINDING[name]) \cap Range(available_nodes) = {}

\* The static phase is at such a feature.
AtUnavailable ==
    /\ pc = "static"
    /\ static_pos < Len(static_features)
    /\ BoundUnavailable(feature_entries[static_features[static_pos + 1]].FEATURE_NAME)

\* C30: a bound feature none of whose bound nodes is in the available pool
\* has no record in any plan the run builds or writes, on a bound node or on
\* any other; the step of the static phase that comes to it goes on to the
\* next feature without ending the run, without a record and without a node
\* marked as used; the counts of the allocator stay as they are, and no
\* dynamic feature has more records than its own count.
UnavailableBindingSkipped ==
    /\ [](\A plan \in Plans : \A k \in 1..Len(plan) :
             ~BoundUnavailable(plan[k].FEATURE_NAME))
    /\ [][AtUnavailable =>
            /\ pc' = "static"
            /\ static_pos' = static_pos + 1
            /\ used_nodes' = used_nodes
            /\ dispatch_entries' = dispatch_entries
            /\ node_allocations' = node_allocations]_vars
    /\ [](pc = "done" =>
            \A i \in 1..Len(feature_entries) :
                (feature_entries[i].FEATURE_NAME \notin DOMAIN FEATURE_NODE_STATIC_BINDING
                 /\ NameOnce(i)) =>
                    Len(RecordsOf(output_file[1], feature_entries[i].FEATURE_NAME))
                        <= node_allocations[i])

\* A plan was written for a catalog that holds a bound feature without an
\* available node, to which the allocator gave a count, and a dynamic
\* feature that has its records.
UnavailableBindingWitness ==
    /\ pc = "done"
    /\ output_file[1] # <<>>
    /\ \E i \in 1..Len(feature_entries) :
           /\ BoundUnavailable(feature_entries[i].FEATURE_NAME)
           /\ node_allocations[i] >= 1
           /\ RecordsOf(output_file[1], feature_entries[i].FEATURE_NAME) = <<>>
====
